---------------------------- MODULE Spec2Model ----------------------------
(***************************************************************************)
(* ValutaTrade Hub: the rate resolver (core/usecases.py RateService), the  *)
(* rates storage (parser_service/storage.py), the provider clients         *)
(* (parser_service/api_clients.py) and the update coordinator              *)
(* (parser_service/updater.py).                                            *)
(*                                                                         *)
(* Encodings used throughout:                                              *)
(*  - a float is a fraction [n, d] in lowest terms with d > 0; NaN is 0/0; *)
(*    n and d stay within the 32-bit integers of the checker;              *)
(*    a float whose binary64 number is not the one nearest to the fraction *)
(*    carries that number in a field "bits";                               *)
(*  - a pair key "EUR_USD" is the sequence of its "_"-separated parts,     *)
(*    <<"EUR", "USD">>, so that f"{a}_{b}" is concatenation and            *)
(*    key.split("_") is the sequence itself;                               *)
(*  - the flat cache object is [pairs, meta]: pairs maps the pair keys to  *)
(*    their entries, meta holds the top-level "source" / "last_refresh";   *)
(*  - a file is [st |-> "missing"], [st |-> "partial"] (bytes that are no  *)
(*    complete JSON document) or [st |-> "json", v |-> value].             *)
(***************************************************************************)
EXTENDS Integers, Sequences, FiniteSets, TLC

VARIABLES
    fs,            \* the files of the working directory: path -> file
    now,           \* the wall clock, [sec, usec]
    run,           \* the update_rates call in progress: its position and locals
    wr,            \* the _atomic_write call in progress
    nruns,         \* update_rates / storage calls started so far
    res,           \* the RateService.get_rate call made last, and its outcome
    direct,        \* the last two direct save_to_history calls
    hist,          \* the last RatesStorage.get_history call and its outcome
    ws,            \* the _atomic_write calls of two update processes at once
    db             \* users.json, portfolios.json and the last call on them

vars == <<fs, now, run, wr, nruns, res, direct, hist, ws, db>>

\* the variables of the history queries, of the concurrent writers and of
\* the registration
others == <<hist, ws, db>>

---------------------------------------------------------------------------
(* Bounds of the model *)

\* the largest number of pair entries of a cache file drawn by InitResolve
MaxPairs == 3

---------------------------------------------------------------------------
(* Floats as fractions *)

RECURSIVE Gcd(_, _)
Gcd(a, b) == IF b = 0 THEN a ELSE Gcd(b, a % b)

Abs(x) == IF x < 0 THEN -x ELSE x

\* the fraction n/d in lowest terms, d > 0; anything over 0 is NaN
R(n, d) ==
    IF d = 0 THEN [n |-> 0, d |-> 0]
    ELSE LET g == Gcd(Abs(n), Abs(d))
             s == IF d < 0 THEN -1 ELSE 1
         IN  [n |-> s * (n \div g), d |-> s * (d \div g)]

NaN == [n |-> 0, d |-> 0]
IsNaN(r) == r.d = 0
IsZero(r) == r.n = 0 /\ r.d # 0
IsPositive(r) == r.n > 0 /\ r.d > 0

---------------------------------------------------------------------------
(* Python float arithmetic: the operations round to IEEE 754 binary64.  A
   float of the model is the fraction that exact arithmetic gives; it stands
   for the binary64 number nearest to the fraction (what json.loads and
   float() give for a literal), and when an operation rounds to another
   number the float carries that number in a field "bits". *)

\* a natural number as its limbs in base 2^13, least significant first
Base == 2^13

Limb(a, i) == IF i \in DOMAIN a THEN a[i] ELSE 0

\* the largest member of a set of naturals, 0 for the empty set
Largest(S) == IF S = {} THEN 0 ELSE CHOOSE m \in S : \A x \in S : x <= m

\* without the leading zero limbs
Trim(a) == SubSeq(a, 1, Largest({ i \in DOMAIN a : a[i] # 0 }))

\* the limbs of a natural below 2^31
BigOf(k) == Trim(<<k % Base, (k \div Base) % Base, k \div (Base * Base)>>)

\* the sign of a - b
BigCmp(a, b) ==
    LET i == Largest({ j \in DOMAIN a \cup DOMAIN b : Limb(a, j) # Limb(b, j) })
    IN  IF i = 0 THEN 0 ELSE IF Limb(a, i) < Limb(b, i) THEN -1 ELSE 1

\* a + b: limb i takes a carry when, below it, the nearest limbs that do not
\* add up to Base - 1 add up to Base or more
BigAdd(a, b) ==
    LET sum(i) == Limb(a, i) + Limb(b, i)
        carry(i) == LET j == Largest({ k \in 1..(i - 1) : sum(k) # Base - 1 })
                    IN  IF j > 0 /\ sum(j) >= Base THEN 1 ELSE 0
        len == (IF Len(a) > Len(b) THEN Len(a) ELSE Len(b)) + 1
    IN  Trim([i \in 1..len |-> (sum(i) + carry(i)) % Base])

\* a - b for a >= b: limb i takes a borrow when, below it, the nearest limbs
\* that differ have the smaller one in a
BigSub(a, b) ==
    LET borrow(i) == LET j == Largest({ k \in 1..(i - 1) : Limb(a, k) # Limb(b, k) })
                     IN  IF j > 0 /\ Limb(a, j) < Limb(b, j) THEN 1 ELSE 0
    IN  Trim([i \in DOMAIN a |-> (Base + a[i] - Limb(b, i) - borrow(i)) % Base])

\* a * k for k <= Base
BigTimes(a, k) ==
    BigAdd([i \in DOMAIN a |-> (a[i] * k) % Base],
           <<0>> \o [i \in DOMAIN a |-> (a[i] * k) \div Base])

\* a * b for b of at most five limbs
BigMul(a, b) ==
    LET col(k) == Limb(a, k) * Limb(b, 1) + Limb(a, k - 1) * Limb(b, 2)
                  + Limb(a, k - 2) * Limb(b, 3) + Limb(a, k - 3) * Limb(b, 4)
                  + Limb(a, k - 4) * Limb(b, 5)
        cols == 1..(Len(a) + 4)
    IN  BigAdd(BigAdd([k \in cols |-> col(k) % Base],
                      <<0>> \o [k \in cols |-> (col(k) \div Base) % Base]),
               <<0, 0>> \o [k \in cols |-> col(k) \div (Base * Base)])

\* the number of binary digits of a
BitLen(a) ==
    IF a = <<>> THEN 0
    ELSE 13 * (Len(a) - 1) + Largest({ n \in 1..13 : a[Len(a)] >= 2^(n - 1) })

\* a * 2^k
ShiftLeft(a, k) ==
    IF a = <<>> THEN <<>>
    ELSE [i \in 1..(k \div 13) |-> 0] \o BigTimes(a, 2^(k % 13))

\* a \div 2^k
ShiftRight(a, k) ==
    LET high == SubSeq(a, k \div 13 + 1, Len(a))
        low == 2^(k % 13)
    IN  Trim([i \in DOMAIN high |->
                 high[i] \div low + (Limb(high, i + 1) % low) * (Base \div low)])

\* the bits of a below 2^k
LowBits(a, k) ==
    Trim([i \in 1..(k \div 13 + 1) |->
             IF i <= k \div 13 THEN Limb(a, i) ELSE Limb(a, i) % 2^(k % 13)])

\* one step of the long division by b, whose top limb is at least Base / 2:
\* with the next limb of the dividend brought down, the remainder is cur;
\* the quotient of the leading limbs is the digit or up to 2 more
Settle(b, cur, q) ==
    LET top == Limb(cur, Len(b) + 1) * Base + Limb(cur, Len(b))
        guess == IF top \div b[Len(b)] > Base - 1 THEN Base - 1
                 ELSE top \div b[Len(b)]
        digit == Largest({ g \in { guess - 2, guess - 1, guess } :
                             g > 0 /\ BigCmp(BigTimes(b, g), cur) <= 0 })
    IN  [q |-> <<digit>> \o q, r |-> BigSub(cur, BigTimes(b, digit))]
DivStep(b, st, limb) == Settle(b, <<limb>> \o st.r, st.q)

\* a binary64 number: sign s, and for s # 0 the value s * m * 2^e with
\* 2^52 <= m < 2^53
Zero == [s |-> 0, m |-> <<>>, e |-> 0]

\* sign * m * 2^e for m of 53 bits, or of 54 after a carry
Carried(sign, m, e) ==
    IF BitLen(m) > 53 THEN [s |-> sign, m |-> ShiftRight(m, 1), e |-> e + 1]
    ELSE [s |-> sign, m |-> m, e |-> e]

\* the 53 bits q are rounded up when the bits cut off are more than a half
\* (c > 0), or a half (c = 0) and q is odd or the fraction is not zero
Nearest(sign, q, e, c, sticky) ==
    Carried(sign,
            IF c > 0 \/ (c = 0 /\ (sticky \/ q[1] % 2 = 1)) THEN BigAdd(q, <<1>>)
            ELSE q,
            e)

\* big has k bits more than 53
Rounding(sign, big, e, sticky, k) ==
    IF k <= 0 THEN [s |-> sign, m |-> ShiftLeft(big, -k), e |-> e + k]
    ELSE Nearest(sign, ShiftRight(big, k), e + k,
                 BigCmp(LowBits(big, k), ShiftLeft(<<1>>, k - 1)), sticky)

\* sign * (big + a fraction below 1 when sticky) * 2^e rounded to nearest,
\* ties to even
RoundToDouble(sign, big, e, sticky) ==
    Rounding(sign, big, e, sticky, BitLen(big) - 53)

\* x * y
DoubleMul(x, y) ==
    IF x.s = 0 \/ y.s = 0 THEN Zero
    ELSE RoundToDouble(x.s * y.s, BigMul(x.m, y.m), x.e + y.e, FALSE)

\* a divided by b, of ten and five limbs: the four top limbs of a are the
\* first remainder, and each of the six limbs below gives a limb of the
\* quotient, one step after the other
LongDiv(a, b) ==
    CHOOSE d \in
        { DivStep(b, d5, a[1]) : d5 \in
        { DivStep(b, d4, a[2]) : d4 \in
        { DivStep(b, d3, a[3]) : d3 \in
        { DivStep(b, d2, a[4]) : d2 \in
        { DivStep(b, d1, a[5]) : d1 \in
        { DivStep(b, [q |-> <<>>, r |-> Trim(SubSeq(a, 7, 10))], a[6]) } } } } } }
        : TRUE

\* sign * (the quotient and remainder d) * 2^e
Quotient(sign, d, e) == RoundToDouble(sign, Trim(d.q), e, d.r # <<>>)

\* x / y for y # 0: x.m * 2^67 is divided by y.m * 2^12
DoubleDiv(x, y) ==
    IF x.s = 0 THEN Zero
    ELSE Quotient(x.s * y.s, LongDiv(ShiftLeft(x.m, 67), ShiftLeft(y.m, 12)),
                  x.e - y.e - 55)

\* s * a * 2^e + t * b * 2^e for s, t # 0
Aligned(s, a, t, b, e) ==
    IF s = t THEN RoundToDouble(s, BigAdd(a, b), e, FALSE)
    ELSE IF BigCmp(a, b) = 0 THEN Zero
    ELSE IF BigCmp(a, b) > 0 THEN RoundToDouble(s, BigSub(a, b), e, FALSE)
    ELSE RoundToDouble(t, BigSub(b, a), e, FALSE)

\* x + y with the smaller exponent e
Added(x, y, e) ==
    Aligned(x.s, ShiftLeft(x.m, x.e - e), y.s, ShiftLeft(y.m, y.e - e), e)

\* x + y
DoubleAdd(x, y) ==
    IF x.s = 0 THEN y
    ELSE IF y.s = 0 THEN x
    ELSE IF x.e - y.e > 55 THEN x
    ELSE IF y.e - x.e > 55 THEN y
    ELSE Added(x, y, IF x.e < y.e THEN x.e ELSE y.e)

Negated(x) == [x EXCEPT !.s = -x.s]

\* |x| < |y| for x, y # 0
SmallerThan(x, y) == x.e < y.e \/ (x.e = y.e /\ BigCmp(x.m, y.m) < 0)

\* x < y
DoubleLess(x, y) ==
    IF x.s # y.s THEN x.s < y.s
    ELSE IF x.s = 0 THEN FALSE
    ELSE IF x.s = 1 THEN SmallerThan(x, y)
    ELSE SmallerThan(y, x)

\* float(k) for an integer k
OfInt(k) ==
    IF k = 0 THEN Zero
    ELSE RoundToDouble(IF k < 0 THEN -1 ELSE 1, BigOf(Abs(k)), 0, FALSE)

\* float(n / d): the binary64 number nearest to the fraction, which is the
\* quotient of the two integers
ToDouble(r) == DoubleDiv(OfInt(r.n), OfInt(r.d))

\* the binary64 number a float of the model stands for: the one nearest to
\* its fraction, unless it carries another
Double(a) == IF "bits" \in DOMAIN a THEN a.bits ELSE ToDouble(a)

\* the float of the model for the binary64 number x, the exact result being
\* the fraction r
Float(r, x) ==
    IF ToDouble(r) = x THEN r ELSE [n |-> r.n, d |-> r.d, bits |-> x]

\* the float is its fraction exactly: no other binary64 number is carried
\* and the denominator is a power of two
IsExact(a) == "bits" \notin DOMAIN a /\ \E i \in 0..30 : a.d = 2^i

\* the float result of an operation whose exact result is the fraction r
\* and whose binary64 result is x: on exact operands the operation rounds
\* r itself
Rounded(r, exact, x) == IF exact THEN r ELSE Float(r, x)

\* the fractions of a * b and of a + b, reduced before the multiplications
Product(a, b) ==
    LET g == Gcd(Abs(a.n), Abs(b.d))
        h == Gcd(Abs(b.n), Abs(a.d))
    IN  R((a.n \div g) * (b.n \div h), (a.d \div h) * (b.d \div g))
Sum(a, b) ==
    LET g == Gcd(a.d, b.d)
    IN  R(a.n * (b.d \div g) + b.n * (a.d \div g), (a.d \div g) * b.d)

\* a / b for b # 0, and a * b
FloatDiv(a, b) ==
    IF IsNaN(a) \/ IsNaN(b) THEN NaN
    ELSE Rounded(Product(a, R(b.d, b.n)), IsExact(a) /\ IsExact(b),
                 DoubleDiv(Double(a), Double(b)))
FloatMul(a, b) ==
    IF IsNaN(a) \/ IsNaN(b) THEN NaN
    ELSE Rounded(Product(a, b), IsExact(a) /\ IsExact(b),
                 DoubleMul(Double(a), Double(b)))
\* the reverse rate handed back as it is, not inverted
RecipForgotten(r) == r

\* a + b, a - b
Add(a, b) ==
    IF IsNaN(a) \/ IsNaN(b) THEN NaN
    ELSE Rounded(Sum(a, b), IsExact(a) /\ IsExact(b),
                 DoubleAdd(Double(a), Double(b)))
DoubleSub(x, y) == DoubleAdd(x, Negated(y))
Sub(a, b) ==
    IF IsNaN(a) \/ IsNaN(b) THEN NaN
    ELSE Rounded(Sum(a, R(-b.n, b.d)), IsExact(a) /\ IsExact(b),
                 DoubleSub(Double(a), Double(b)))
\* a < b and a <= 0; a comparison with NaN is false
Less(a, b) ==
    /\ ~IsNaN(a) /\ ~IsNaN(b)
    /\ IF IsExact(a) /\ IsExact(b) THEN Sum(a, R(-b.n, b.d)).n < 0
       ELSE DoubleLess(Double(a), Double(b))
NotPositive(a) ==
    /\ ~IsNaN(a)
    /\ IF "bits" \in DOMAIN a THEN a.bits.s <= 0 ELSE a.n <= 0

---------------------------------------------------------------------------
(* Files and JSON objects *)

Missing == [st |-> "missing"]
Partial == [st |-> "partial"]
JsonFile(v) == [st |-> "json", v |-> v]

EmptyFn == <<>>
\* the JSON object {}
EmptyDict == [pairs |-> EmptyFn, meta |-> EmptyFn]
\* len(d) == 0, the falsiness of a dict
DictIsEmpty(d) == DOMAIN d.pairs = {} /\ DOMAIN d.meta = {}

\* s.split("_") on the strings the model passes
Parts(s) == IF s = "US_D" THEN <<"US", "D">> ELSE <<s>>

\* f"{a}_{b}"
PairKey(a, b) == Parts(a) \o Parts(b)

\* os.path.join(directory, name) and directory / name on the names the model
\* passes
Join(directory, name) ==
    CASE directory = "data" /\ name = "rates.json" -> "data/rates.json"
      [] directory = "data" /\ name = "exchange_rates.json" -> "data/exchange_rates.json"
      [] directory = "var" /\ name = "rates.json" -> "var/rates.json"

\* ParserConfig.DATA_DIR, RATES_FILE_PATH and HISTORY_FILE_PATH
\* (parser_service/config.py lines 49-57)
DATA_DIR == "data"
RATES_FILE_PATH == Join(DATA_DIR, "rates.json")
HISTORY_FILE_PATH == Join(DATA_DIR, "exchange_rates.json")
\* file_path.with_suffix(f"{file_path.suffix}.tmp")
TempPath(file_path) ==
    IF file_path = "data/rates.json" THEN "data/rates.json.tmp"
    ELSE "data/exchange_rates.json.tmp"

\* the file SettingsLoader() reads, in the working directory
CONFIG_PATH == "config.json"

\* the files of the model: those of the parser service, config.json, and the
\* cache file of another data directory
Paths == { RATES_FILE_PATH, TempPath(RATES_FILE_PATH),
           HISTORY_FILE_PATH, TempPath(HISTORY_FILE_PATH),
           CONFIG_PATH, Join("var", "rates.json") }
\* the working directory as a first start finds it
EmptyDir == [p \in Paths |-> Missing]

\* no update_rates call, no _atomic_write call in progress
IdleRun == [pc |-> "idle"]
IdleWrite == [pc |-> "idle"]

\* no get_history call made, no concurrent writer started, no account call
\* made and no users or portfolios file yet
NoHistoryCall == [pc |-> "none"]
NoWriters == <<IdleWrite, IdleWrite>>
NoDb == [users |-> Missing, portfolios |-> Missing, last |-> [pc |-> "none"]]

---------------------------------------------------------------------------
(* core/currencies.py *)

_CURRENCY_REGISTRY == {"USD", "EUR", "RUB", "BTC", "ETH"}

\* str.upper() on the codes the model passes
Upper(code) ==
    CASE code = "usd" -> "USD"
      [] code = "eur" -> "EUR"
      [] code = "xyz" -> "XYZ"
      [] OTHER -> code

\* a registry that knows every code
GetCurrencyLenient(code) == TRUE

\* get_currency: TRUE when it returns, FALSE when it raises CurrencyNotFoundError
get_currency(code) == Upper(code) \in _CURRENCY_REGISTRY

---------------------------------------------------------------------------
(* infra/settings.py and infra/database.py *)

\* the defaults of SettingsLoader.reload (settings.py lines 99-105), of which
\* the model keeps the data directory
default_config == [DATA_DIR |-> "data"]

\* SettingsLoader.reload, lines 107-118: the keys of config.json over the
\* defaults when the file exists and decodes, the defaults otherwise
reload(config_file) ==
    IF config_file.st = "json" THEN config_file.v @@ default_config
    ELSE default_config

\* SettingsLoader().data_dir
data_dir == reload(fs[CONFIG_PATH]).DATA_DIR

\* DatabaseManager.rates_path = os.path.join(self.data_dir, "rates.json")
\* (database.py lines 23-28)
rates_path == Join(data_dir, "rates.json")

\* what DatabaseManager._load_data(rates_path, {}) returns
LoadRatesValue(file) == IF file.st = "json" THEN file.v ELSE EmptyDict

\* what the file holds after _load_data: a missing or undecodable file is
\* rewritten with the default by _save_data
LoadRatesFile(file) == IF file.st = "json" THEN file ELSE JsonFile(EmptyDict)

get_rates(file) == LoadRatesValue(file)

---------------------------------------------------------------------------
(* core/usecases.py: RateService *)

FALLBACK_RATES ==
    [pairs |-> (PairKey("EUR", "USD") :> [rate |-> R(27, 25)])
            @@ (PairKey("BTC", "USD") :> [rate |-> R(60000, 1)])
            @@ (PairKey("RUB", "USD") :> [rate |-> R(11, 1000)])
            @@ (PairKey("ETH", "USD") :> [rate |-> R(3000, 1)]),
     meta |-> EmptyFn]

\* pair in rates_data and "rate" in rates_data[pair]
HasRate(rates_data, pair) ==
    /\ pair \in DOMAIN rates_data.pairs
    /\ "rate" \in DOMAIN rates_data.pairs[pair]

NoRate == R(0, 1)

Returned(rate, made, read) ==
    [kind |-> "ok", rate |-> rate, msg |-> <<>>, calls |-> made, read |-> read]
Raised(kind, msg, made, read) ==
    [kind |-> kind, rate |-> NoRate, msg |-> msg, calls |-> made, read |-> read]

\* the rates of the table, and the rates the cache files of the model hold:
\* 0 and 1.08 (drawn), 2, -1, 3, 7 and 4 (written by the update runs)
RatesOfTable ==
    { FALLBACK_RATES.pairs[pair].rate : pair \in DOMAIN FALLBACK_RATES.pairs }
RatesCached ==
    { R(0, 1), R(27, 25), R(2, 1), R(-1, 1), R(3, 1), R(7, 1), R(4, 1) }

\* 1 / rate for each of these rates, computed once
Reciprocals ==
    { [of |-> rate, is |-> FloatDiv(R(1, 1), rate)] :
        rate \in { r \in RatesOfTable \cup RatesCached : ~IsZero(r) } }

\* the reverse rates, among those computed, of the rates given
ReverseRates(computed, rates) == { q.is : q \in { p \in computed : p.of \in rates } }

\* the pairs of rates the two legs of a cross rate can have: direct or
\* reverse rates of a cache of the model, or a rate of the table and the
\* reverse of one
LegPairs(reverse) ==
    { <<a, b>> : a \in RatesCached \cup ReverseRates(reverse, RatesCached),
                 b \in RatesCached \cup ReverseRates(reverse, RatesCached) }
    \cup (RatesOfTable \X ReverseRates(reverse, RatesOfTable))

\* from_usd_rate * to_usd_rate for these pairs, computed once
Products ==
    { [of |-> legs, is |-> FloatMul(legs[1], legs[2])] : legs \in LegPairs(Reciprocals) }

\* the result computed once for the operands, or else the result given
Computed(results, operands, result) ==
    IF \E c \in results : c.of = operands
    THEN (CHOOSE c \in results : c.of = operands).is
    ELSE result

\* 1 / rate for a rate # 0 (usecases.py line 125)
Recip(rate) == Computed(Reciprocals, rate, FloatDiv(R(1, 1), rate))

\* from_usd_rate * to_usd_rate (usecases.py line 132)
Mul(from_usd_rate, to_usd_rate) ==
    Computed(Products, <<from_usd_rate, to_usd_rate>>,
             FloatMul(from_usd_rate, to_usd_rate))

\* an identity check that never matches
SameCurrencyNever(from, to) == FALSE

\* from_currency == to_currency (usecases.py line 112)
SameCurrency(from, to) == from = to

\* the fallback table filling in the pairs the cache lacks
RatesUsedWithFallback(loaded) ==
    [pairs |-> loaded.pairs @@ FALLBACK_RATES.pairs, meta |-> loaded.meta]

\* self.db.get_rates() or self.FALLBACK_RATES (usecases.py line 115)
RatesUsed(loaded) == IF DictIsEmpty(loaded) THEN FALLBACK_RATES ELSE loaded

\* the cross-rate step tried whatever the two codes are
CrossRateAlways(from, to) == TRUE

\* the guard of the cross-rate step (usecases.py line 128)
CrossRateAllowed(from, to) == from # "USD" /\ to # "USD"

RECURSIVE get_rate(_, _, _, _)

\* lines 131-137: the second leg of the cross rate resolved, `made` being
\* the calls made before it
CrossRate(unavailable, made, from_usd, to_usd) ==
    IF to_usd.kind = "ValueError" THEN
        Raised("ValueError", unavailable, made \o to_usd.calls, TRUE)
    ELSE IF to_usd.kind # "ok" THEN
        [to_usd EXCEPT !.calls = made \o to_usd.calls, !.read = TRUE]
    ELSE
        Returned(Mul(from_usd.rate, to_usd.rate), made \o to_usd.calls, TRUE)

\* lines 129-137: the first leg of the cross rate resolved, the second to
\* resolve
CrossFrom(file, to, depth, unavailable, me, from_usd) ==
    IF from_usd.kind = "ValueError" THEN
        Raised("ValueError", unavailable, me \o from_usd.calls, TRUE)
    ELSE IF from_usd.kind # "ok" THEN
        [from_usd EXCEPT !.calls = me \o from_usd.calls, !.read = TRUE]
    ELSE
        CrossRate(unavailable, me \o from_usd.calls, from_usd,
                  get_rate(LoadRatesFile(file), "USD", to, depth + 1))

\* get_rate(from_currency, to_currency, depth) on the cache file `file`.
\* The outcome carries, besides the value returned or the exception raised,
\* the calls made (this one first, then the nested ones in order) and
\* whether the cache file was read.
get_rate(file, from_currency, to_currency, depth) ==
    LET me == <<[from |-> from_currency, to |-> to_currency, depth |-> depth]>>
        from == Upper(from_currency)
        to == Upper(to_currency)
    IN
    IF depth > 2 THEN
        Raised("ValueError", <<"recursion", from_currency, to_currency>>, me, FALSE)
    ELSE IF ~get_currency(from) THEN
        Raised("CurrencyNotFoundError", <<"unknown", from>>, me, FALSE)
    ELSE IF ~get_currency(to) THEN
        Raised("CurrencyNotFoundError", <<"unknown", to>>, me, FALSE)
    ELSE IF SameCurrency(from, to) THEN
        Returned(R(1, 1), me, FALSE)
    ELSE
        LET loaded == get_rates(file)
            rates_data == RatesUsed(loaded)
            pair == PairKey(from, to)
            reverse_pair == PairKey(to, from)
            unavailable == <<"unavailable", from, to>>
        IN
        IF HasRate(rates_data, pair) THEN
            Returned(rates_data.pairs[pair].rate, me, TRUE)
        ELSE IF HasRate(rates_data, reverse_pair) THEN
            IF IsZero(rates_data.pairs[reverse_pair].rate)
            THEN Raised("ZeroDivisionError", <<"division by zero">>, me, TRUE)
            ELSE Returned(Recip(rates_data.pairs[reverse_pair].rate), me, TRUE)
        ELSE IF CrossRateAllowed(from, to) THEN
            CrossFrom(file, to, depth, unavailable, me,
                      get_rate(LoadRatesFile(file), from, "USD", depth + 1))
        ELSE
            Raised("ValueError", unavailable, me, TRUE)

---------------------------------------------------------------------------
(* The resolver's specification: any cache file, any query *)

\* codes a caller passes to get_rate
QueryCodes == {"USD", "EUR", "RUB", "BTC", "XYZ", "eur"}

\* pair keys a drawn cache file may hold
CacheKeys ==
    { PairKey("EUR", "USD"), PairKey("USD", "EUR"), PairKey("USD", "RUB"),
      PairKey("EUR", "RUB"), PairKey("RUB", "BTC"), PairKey("BTC", "EUR"),
      PairKey("XYZ", "USD") }

\* entries a drawn cache file may hold: a rate of 0 or 1.08, or no "rate" key
CacheEntries == { [rate |-> R(0, 1)], [rate |-> R(27, 25)], EmptyFn }

\* the cache objects drawn: up to MaxPairs pair entries, and the object
\* that holds a top-level "source" and no pair
CacheDicts ==
    { [pairs |-> p, meta |-> EmptyFn] :
        p \in UNION { [K -> CacheEntries] :
                        K \in { S \in SUBSET CacheKeys : Cardinality(S) <= MaxPairs } } }
    \cup { [pairs |-> EmptyFn, meta |-> [source |-> "ParserService"]] }

CacheFiles == { Missing, Partial } \cup { JsonFile(d) : d \in CacheDicts }

NoCallYet == [from |-> "", to |-> "", before |-> Missing,
              out |-> Raised("none", <<>>, <<>>, FALSE)]

Epoch == [sec |-> 0, usec |-> 0]

InitResolve ==
    /\ fs \in { [EmptyDir EXCEPT ![RATES_FILE_PATH] = f] : f \in CacheFiles }
    /\ now = Epoch
    /\ run = IdleRun
    /\ wr = IdleWrite
    /\ nruns = 0
    /\ res = NoCallYet
    /\ direct = <<>>
    /\ hist = NoHistoryCall
    /\ ws = NoWriters
    /\ db = NoDb

\* the call made and its outcome, and the cache file as _load_data leaves it
\* when the call came to read it
Resolved(from, to, ratesFile, out) ==
    /\ res' = [from |-> from, to |-> to, before |-> ratesFile, out |-> out]
    /\ fs' = IF out.read
             THEN [fs EXCEPT ![rates_path] = LoadRatesFile(ratesFile)]
             ELSE fs
    /\ UNCHANGED <<now, run, wr, nruns, direct, others>>

\* RateService().get_rate(from, to)
GetRate(from, to) ==
    Resolved(from, to, fs[rates_path], get_rate(fs[rates_path], from, to, 0))

\* the objects handed to save_rates: an empty one, and EUR_USD at 2
SavedRates ==
    { EmptyDict,
      [pairs |-> (PairKey("EUR", "USD") :> [rate |-> R(2, 1)]), meta |-> EmptyFn] }

\* DatabaseManager().save_rates(rates), database.py lines 68-69: _save_data
\* (lines 41-44) writes the object over the file at rates_path; the last
\* call is then no get_rate call
SaveRates(rates) ==
    /\ fs' = [fs EXCEPT ![rates_path] = JsonFile(rates)]
    /\ res' = NoCallYet
    /\ UNCHANGED <<now, run, wr, nruns, direct, others>>

NextResolve ==
    \/ \E from \in QueryCodes, to \in QueryCodes : GetRate(from, to)
    \/ \E rates \in SavedRates : SaveRates(rates)

SpecResolve == InitResolve /\ [][NextResolve]_vars


---------------------------------------------------------------------------
(* Ordered dicts: a Python dict as the sequence of its items, in insertion
   order *)

OdKeys(od) == { od[i].k : i \in DOMAIN od }
OdGet(od, key) == od[CHOOSE i \in DOMAIN od : od[i].k = key].v

\* od[key] = value
OdSet(od, key, value) ==
    IF key \in OdKeys(od)
    THEN [i \in DOMAIN od |-> IF od[i].k = key THEN [k |-> key, v |-> value] ELSE od[i]]
    ELSE Append(od, [k |-> key, v |-> value])

\* od.update(other)
RECURSIVE OdUpdateFrom(_, _, _)
OdUpdateFrom(od, other, i) ==
    IF i > Len(other) THEN od
    ELSE OdUpdateFrom(OdSet(od, other[i].k, other[i].v), other, i + 1)
OdUpdate(od, other) == OdUpdateFrom(od, other, 1)

---------------------------------------------------------------------------
(* JSON values of a response body, and the expressions _parse_response
   applies to them *)

JNull == [t |-> "null"]
JNum(r) == [t |-> "num", num |-> r]
JStr(s) == [t |-> "str", str |-> s]
JList(items) == [t |-> "list", items |-> items]
JObj(f) == [t |-> "obj", obj |-> f]
\* a body that is no JSON document
NotJson == [t |-> "text"]

\* an expression's outcome: its value, or the exception it raises
Val(v) == [ok |-> TRUE, val |-> v]
Err(e) == [ok |-> FALSE, err |-> e]

\* key in s for two strings: key is a substring of s
IsSubstring(key, s) ==
    \E i \in 1..(Len(s) - Len(key) + 1) : SubSeq(s, i, i + Len(key) - 1) = key

\* key in data
Contains(data, key) ==
    CASE data.t = "obj"  -> Val(key \in DOMAIN data.obj)
      [] data.t = "list" -> Val(\E i \in DOMAIN data.items : data.items[i] = JStr(key))
      [] data.t = "str"  -> Val(IsSubstring(key, data.str))
      [] OTHER           -> Err("TypeError")

\* data[key] with a string key
Subscript(data, key) ==
    CASE data.t = "obj" ->
            IF key \in DOMAIN data.obj THEN Val(data.obj[key]) ELSE Err("KeyError")
      [] OTHER -> Err("TypeError")

\* data.get(key, default)
DictGet(data, key, default) ==
    CASE data.t = "obj" ->
            IF key \in DOMAIN data.obj THEN Val(data.obj[key]) ELSE Val(default)
      [] OTHER -> Err("AttributeError")

\* float(s) for the strings the model passes
FloatOfStr(s) ==
    CASE s = "3"   -> Val(R(3, 1))
      [] s = "nan" -> Val(NaN)
      [] OTHER     -> Err("ValueError")

\* float(value)
ToFloat(value) ==
    CASE value.t = "num" -> Val(value.num)
      [] value.t = "str" -> FloatOfStr(value.str)
      [] OTHER           -> Err("TypeError")

---------------------------------------------------------------------------
(* core/exceptions.py and parser_service/config.py *)

\* ApiRequestError and its subclasses
ApiRequestErrors == {"ApiRequestError", "RateLimitError", "InvalidResponseError"}

\* an exception and str() of it, kept as its parts
Exc(kind, service_name, message) == [exc |-> kind, msg |-> <<service_name, message>>]

CRYPTO_ID_MAP ==
    << [ticker |-> "BTC", id |-> "bitcoin"],
       [ticker |-> "ETH", id |-> "ethereum"],
       [ticker |-> "USDT", id |-> "tether"] >>
FIAT_CURRENCIES == <<"EUR", "GBP", "RUB", "CNY", "JPY", "AUD">>
BASE_CURRENCY == "USD"
\* BASE_CURRENCY.lower()
BaseLower == "usd"

---------------------------------------------------------------------------
(* parser_service/api_clients.py *)

\* what the wire gives back to requests.get
Timeout == [kind |-> "timeout"]
ConnectionError == [kind |-> "connection_error"]
Http(status, body) == [kind |-> "http", status |-> status, body |-> body]

\* BaseApiClient._make_request: the response, or the exception raised
_make_request(resp, service_name) ==
    CASE resp.kind = "timeout" ->
            Err(Exc("ApiRequestError", service_name, "Request timeout after 10s"))
      [] resp.kind = "connection_error" ->
            Err(Exc("ApiRequestError", service_name, "connection error"))
      [] resp.status = 429 ->
            Err(Exc("RateLimitError", service_name, "Rate limit exceeded (Status: 429)"))
      [] resp.status >= 400 /\ resp.status < 600 ->
            Err(Exc("ApiRequestError", service_name, "HTTP error"))
      [] OTHER -> Val(resp)

\* response.json()
ResponseJson(resp, service_name) ==
    IF resp.body.t = "text"
    THEN Err(Exc("JSONDecodeError", service_name, "Expecting value"))
    ELSE Val(resp.body)

\* meta_base plus raw_id (request_ms and etag, a timing and a header, are left out)
MetaOf(resp, raw_id) == [status_code |-> resp.status, raw_id |-> raw_id]

\* the float() of CoinGecko's parse
CoinGeckoFloat(value) == ToFloat(value)

\* the loop of CoinGeckoClient._parse_response from the i-th coin on
RECURSIVE CoinGeckoLoop(_, _, _, _)
CoinGeckoLoop(data, resp, i, rates) ==
    IF i > Len(CRYPTO_ID_MAP) THEN Val(rates)
    ELSE
        LET coin_id == CRYPTO_ID_MAP[i].id
            has == Contains(data, coin_id)
        IN
        IF ~has.ok THEN has
        ELSE IF ~has.val THEN CoinGeckoLoop(data, resp, i + 1, rates)
        ELSE
            LET coin == Subscript(data, coin_id) IN
            IF ~coin.ok THEN coin
            ELSE
                LET price == Subscript(coin.val, BaseLower) IN
                IF ~price.ok THEN price
                ELSE
                    LET rate_value == CoinGeckoFloat(price.val) IN
                    IF ~rate_value.ok THEN rate_value
                    ELSE CoinGeckoLoop(data, resp, i + 1,
                            OdSet(rates, PairKey(CRYPTO_ID_MAP[i].ticker, BASE_CURRENCY),
                                  [rate |-> rate_value.val, meta |-> MetaOf(resp, coin_id)]))

\* CoinGeckoClient._parse_response
CoinGeckoParse(data, resp) ==
    LET r == CoinGeckoLoop(data, resp, 1, <<>>) IN
    IF ~r.ok /\ r.err \in {"KeyError", "ValueError", "TypeError"}
    THEN Err(Exc("InvalidResponseError", "CoinGecko", r.err))
    ELSE r

\* CoinGeckoClient.fetch_rates
CoinGeckoFetch(resp) ==
    LET response == _make_request(resp, "CoinGecko") IN
    IF ~response.ok THEN response
    ELSE LET data == ResponseJson(resp, "CoinGecko") IN
         IF ~data.ok THEN data ELSE CoinGeckoParse(data.val, resp)

\* self.config.FIAT_CURRENCIES of the client that meets the answer: the
\* default list, unless the answer is marked with the list of a ParserConfig
\* built with another one
ConfiguredFiat(resp) ==
    IF "fiat" \in DOMAIN resp THEN resp.fiat ELSE FIAT_CURRENCIES

\* the loop of ExchangeRateApiClient._parse_response from the i-th currency on
RECURSIVE ExchangeRateLoop(_, _, _, _, _)
ExchangeRateLoop(conversion_rates, base_code, resp, i, rates) ==
    IF i > Len(ConfiguredFiat(resp)) THEN Val(rates)
    ELSE
        LET currency == ConfiguredFiat(resp)[i]
            has == Contains(conversion_rates, currency)
        IN
        IF ~has.ok THEN has
        ELSE IF ~has.val THEN
            ExchangeRateLoop(conversion_rates, base_code, resp, i + 1, rates)
        ELSE
            LET value == Subscript(conversion_rates, currency) IN
            IF ~value.ok THEN value
            ELSE
                LET rate_value == ToFloat(value.val) IN
                IF ~rate_value.ok THEN rate_value
                ELSE ExchangeRateLoop(conversion_rates, base_code, resp, i + 1,
                        OdSet(rates, PairKey(currency, base_code),
                              [rate |-> rate_value.val, meta |-> MetaOf(resp, currency)]))

\* ExchangeRateApiClient._parse_response
ExchangeRateParse(data, resp) ==
    LET result == DictGet(data, "result", JNull) IN
    IF ~result.ok THEN Err(Exc(result.err, "ExchangeRate-API", "no attribute get"))
    ELSE IF result.val # JStr("success") THEN
        Err(Exc("InvalidResponseError", "ExchangeRate-API", "API error"))
    ELSE
        LET conversion_rates == DictGet(data, "conversion_rates", JObj(EmptyFn)).val
            base_code == DictGet(data, "base_code", JStr(BASE_CURRENCY)).val
            r == ExchangeRateLoop(conversion_rates, base_code.str, resp, 1, <<>>)
        IN
        IF ~r.ok /\ r.err \in {"KeyError", "ValueError", "TypeError"}
        THEN Err(Exc("InvalidResponseError", "ExchangeRate-API", r.err))
        ELSE r

\* ExchangeRateApiClient.fetch_rates; a response of kind "no_api_key" stands
\* for a configuration whose EXCHANGERATE_API_KEY is empty
ExchangeRateFetch(resp) ==
    IF resp.kind = "no_api_key"
    THEN Err(Exc("ApiRequestError", "ExchangeRate-API", "API key not set"))
    ELSE
        LET response == _make_request(resp, "ExchangeRate-API") IN
        IF ~response.ok THEN response
        ELSE LET data == ResponseJson(resp, "ExchangeRate-API") IN
             IF ~data.ok THEN data ELSE ExchangeRateParse(data.val, resp)

\* client.fetch_rates() of the client registered under `name`
fetch_rates(name, resp) ==
    IF name = "coingecko" THEN CoinGeckoFetch(resp) ELSE ExchangeRateFetch(resp)

---------------------------------------------------------------------------
(* parser_service/storage.py *)

\* timestamp.isoformat() + "Z": microseconds kept; an aware UTC timestamp
\* prints its offset before the "Z"
Iso(ts) == [sec |-> ts.sec, usec |-> ts.usec,
            tail |-> IF ts.aware THEN "+00:00Z" ELSE "Z"]

\* timestamp.strftime("%Y-%m-%dT%H:%M:%SZ"): second precision
Strftime(ts) == [sec |-> ts.sec, tail |-> "Z"]

\* the timestamp part of a record id that keeps the microseconds
StrftimeMicro(ts) == [sec |-> ts.sec, usec |-> ts.usec, tail |-> "Z"]

\* the timestamp part of a record id
IdStamp(ts) == Strftime(ts)

\* RatesStorage._generate_rate_id: f"{from_currency}_{to_currency}_{timestamp_str}"
_generate_rate_id(from_currency, to_currency, timestamp) ==
    <<from_currency, to_currency, IdStamp(timestamp)>>

\* a read that finds no record
ReadHistoryEmpty(file) == <<>>

\* isinstance(data, list): the value is a JSON array, which the model holds
\* as a tuple (its domain is empty or starts at 1), and not an object, which
\* it holds as a record (its domain is a set of strings)
IsList(data) ==
    LET keys == ToString(DOMAIN data) IN
    keys = "{}" \/ SubSeq(keys, 1, 1) = "1" \/ SubSeq(keys, 1, 2) = "{1"

\* RatesStorage._read_history / _read_rates_cache
_read_history(file) == IF file.st = "json" /\ IsList(file.v) THEN file.v ELSE <<>>
_read_rates_cache(file) == IF file.st = "json" THEN file.v ELSE EmptyDict

\* a check that takes every id for a new one
AlreadySavedNever(record_id, existing_ids) == FALSE

\* record_id in existing_ids (storage.py line 53)
AlreadySaved(record_id, existing_ids) == record_id \in existing_ids

\* the loop of save_to_history from the i-th item of rates_data on
RECURSIVE SaveLoop(_, _, _, _, _, _, _)
SaveLoop(rates_data, i, existing_ids, history, added_count, source, timestamp) ==
    IF i > Len(rates_data) THEN [history |-> history, added |-> added_count]
    ELSE
        LET parts == rates_data[i].k
            data == rates_data[i].v
        IN
        IF Len(parts) # 2 THEN
            SaveLoop(rates_data, i + 1, existing_ids, history, added_count, source, timestamp)
        ELSE
            LET record_id == _generate_rate_id(parts[1], parts[2], timestamp) IN
            IF AlreadySaved(record_id, existing_ids) THEN
                SaveLoop(rates_data, i + 1, existing_ids, history, added_count,
                         source, timestamp)
            ELSE
                SaveLoop(rates_data, i + 1, existing_ids,
                         Append(history,
                                [id |-> record_id,
                                 from_currency |-> parts[1],
                                 to_currency |-> parts[2],
                                 rate |-> data.rate,
                                 timestamp |-> Iso(timestamp),
                                 source |-> source,
                                 meta |-> data.meta]),
                         added_count + 1, source, timestamp)

\* a save_to_history that appends nothing
SaveNothing(file, rates_data, source, timestamp) ==
    [history |-> _read_history(file), added |-> 0]

\* RatesStorage.save_to_history up to its write: the history list to write
\* and added_count
save_to_history(file, rates_data, source, timestamp) ==
    LET history == _read_history(file)
        existing_ids == { history[i].id : i \in DOMAIN history }
    IN  SaveLoop(rates_data, 1, existing_ids, history, 0, source, timestamp)

\* only the keys that split into two parts
CacheKeysWellFormed(rates_data) == { key \in OdKeys(rates_data) : Len(key) = 2 }

\* the keys update_rates_cache writes
CacheKeysOf(rates_data) == OdKeys(rates_data)

\* RatesStorage.update_rates_cache up to its write: final_json_data
update_rates_cache(rates_data, source, timestamp) ==
    [pairs |-> [key \in CacheKeysOf(rates_data) |->
                    [rate |-> OdGet(rates_data, key).rate,
                     updated_at |-> Iso(timestamp)]],
     meta |-> [source |-> source, last_refresh |-> Iso(timestamp)]]

\* the data written to the target file itself
OpenedPathInPlace(file_path) == file_path

\* the file open(..., "w") truncates in _atomic_write
OpenedPath(file_path) == TempPath(file_path)

\* an except block that re-raises without unlinking
CleanupLeavesTemp(files, temp_file) == files

\* the except block of _atomic_write: the temp file is unlinked if it exists
Cleanup(files, temp_file) == [files EXCEPT ![temp_file] = Missing]

\* temp_file.replace(file_path)
Replace(files, temp_file, file_path) ==
    IF temp_file = file_path THEN files
    ELSE [files EXCEPT ![file_path] = files[temp_file], ![temp_file] = Missing]

\* _atomic_write(file_path, data) entered on behalf of `caller`; `before`
\* remembers what the target file held at that moment
StartWrite(file_path, data, caller, files) ==
    [pc |-> "open", path |-> file_path, data |-> data, caller |-> caller,
     before |-> files[file_path]]

---------------------------------------------------------------------------
(* Bounds of the update pipeline's model *)

\* update_rates calls per behaviour
MaxRuns == 2

\* direct save_to_history calls per behaviour
MaxCalls == 3

---------------------------------------------------------------------------
(* What the providers answer *)

Price(v) == JObj("usd" :> v)

\* bodies CoinGecko answers with: BTC at 2; BTC at 0 and ETH at "nan"; no coin
CoinGeckoBodies ==
    { JObj("bitcoin" :> Price(JNum(R(2, 1)))),
      JObj(("bitcoin" :> Price(JNum(R(0, 1)))) @@ ("ethereum" :> Price(JStr("nan")))),
      JObj(EmptyFn) }

Rates(base, f) ==
    JObj(("result" :> JStr("success")) @@ ("base_code" :> JStr(base))
         @@ ("conversion_rates" :> JObj(f)))

\* bodies ExchangeRate-API answers with: EUR at 2; EUR at -1 and RUB at 3 with
\* no base_code; EUR at 2 on a base code "US_D"; an error report
ExchangeRateBodies ==
    { Rates("USD", "EUR" :> JNum(R(2, 1))),
      JObj(("result" :> JStr("success"))
           @@ ("conversion_rates" :>
                  JObj(("EUR" :> JNum(R(-1, 1))) @@ ("RUB" :> JNum(R(3, 1)))))),
      Rates("US_D", "EUR" :> JNum(R(2, 1))),
      JObj("result" :> JStr("error")) }

\* the answers a client's fetch_rates meets in an update run
Responses(name) ==
    IF name = "coingecko"
    THEN { Timeout, Http(429, NotJson), Http(200, NotJson) }
         \cup { Http(200, b) : b \in CoinGeckoBodies }
    ELSE { ConnectionError, [kind |-> "no_api_key"] }
         \cup { Http(200, b) : b \in ExchangeRateBodies }

---------------------------------------------------------------------------
(* parser_service/updater.py *)

\* RatesUpdater.clients, in insertion order
Clients == <<"coingecko", "exchangerate">>

\* source.lower() for the names the model passes
Lower(source) == IF source = "CoinGecko" THEN "coingecko" ELSE source

\* the `source` arguments callers pass; "" is None
Sources == {"", "exchangerate", "CoinGecko", "binance"}

\* every client run whatever the source asked for
GetClientsOrAll(source) == Val(Clients)

\* RatesUpdater._get_clients_to_run: the names to run, or ValueError
_get_clients_to_run(source) ==
    IF source # "" THEN
        IF \E i \in DOMAIN Clients : Clients[i] = Lower(source)
        THEN Val(<<Lower(source)>>)
        ELSE Err(Exc("ValueError", "Unknown source", source))
    ELSE Val(Clients)

\* a report that calls a run with any rate a success
BuildReportAnyRate(total_rates, timestamp, sources, errors) ==
    [success |-> total_rates > 0,
     timestamp |-> Iso(timestamp),
     total_rates |-> total_rates,
     sources |-> sources]

\* RatesUpdater._build_report
_build_report(total_rates, timestamp, sources, errors) ==
    [success |-> Len(errors) = 0,
     timestamp |-> Iso(timestamp),
     total_rates |-> total_rates,
     sources |-> sources]

\* the clock moves on: within the same second, or into the next one
Advance(t, how) ==
    IF how = "tick" THEN [t EXCEPT !.usec = t.usec + 1]
    ELSE [sec |-> t.sec + 1, usec |-> 0]

\* datetime.now(timezone.utc) / datetime.utcnow() at clock t
NowUtc(t) == [sec |-> t.sec, usec |-> t.usec, aware |-> TRUE]
UtcNow(t) == [sec |-> t.sec, usec |-> t.usec, aware |-> FALSE]

InitUpdate ==
    /\ fs = EmptyDir
    /\ now = Epoch
    /\ run = IdleRun
    /\ wr = IdleWrite
    /\ nruns = 0
    /\ res = NoCallYet
    /\ direct = <<>>
    /\ hist = NoHistoryCall
    /\ ws = NoWriters
    /\ db = NoDb

RunOver == run.pc \in {"idle", "done", "raised", "crashed"}

\* update_rates(source) is called: lines 33-39
StartRun(source, how) ==
    /\ RunOver
    /\ wr.pc = "idle"
    /\ nruns < MaxRuns
    /\ nruns' = nruns + 1
    /\ now' = Advance(now, how)
    /\ LET clients_to_run == _get_clients_to_run(source) IN
       run' = IF ~clients_to_run.ok
              THEN [pc |-> "raised", at |-> "_get_clients_to_run",
                    exc |-> clients_to_run.err, fetched |-> <<>>,
                    before |-> fs]
              ELSE [pc |-> "fetch",
                    todo |-> clients_to_run.val,
                    selected |-> clients_to_run.val,
                    timestamp |-> NowUtc(now'),
                    all_rates_data |-> <<>>,
                    sources_info |-> EmptyFn,
                    errors |-> <<>>,
                    fetched |-> <<>>,
                    before |-> fs]
    /\ UNCHANGED <<fs, wr, res, direct, others>>

\* lines 47-48: the client's rates are merged and its success recorded
ClientSucceeded(r, name, rates_data) ==
    [r EXCEPT !.pc = "fetch",
              !.todo = Tail(r.todo),
              !.all_rates_data = OdUpdate(r.all_rates_data, rates_data),
              !.sources_info = (name :> [success |-> TRUE, rates |-> Len(rates_data)])
                               @@ r.sources_info]

\* lines 49-57: the client's ApiRequestError is recorded
ClientFailed(r, name, e) ==
    [r EXCEPT !.todo = Tail(r.todo),
              !.errors = Append(r.errors, <<"Failed to fetch from", name, e.msg>>),
              !.sources_info = (name :> [success |-> FALSE, error |-> e.msg, rates |-> 0])
                               @@ r.sources_info]

\* a handler that catches every exception
CaughtAll(exc_kind) == TRUE

\* except ApiRequestError (updater.py line 49)
Caught(exc_kind) == exc_kind \in ApiRequestErrors

\* an exception leaves update_rates
RunRaised(r, at, e) ==
    [pc |-> "raised", at |-> at, exc |-> e, fetched |-> r.fetched, before |-> r.before]

\* one turn of the loop of lines 41-57 up to the history write: the next
\* client's fetch_rates meets `resp`
FetchAnswer(resp) ==
    /\ run.pc = "fetch"
    /\ run.todo # <<>>
    /\ LET name == Head(run.todo)
           got == fetch_rates(name, resp)
           r == [run EXCEPT !.fetched = Append(run.fetched, name)]
       IN
       /\ IF ~got.ok THEN
             /\ run' = IF Caught(got.err.exc)
                       THEN ClientFailed(r, name, got.err)
                       ELSE RunRaised(r, "fetch_rates", got.err)
             /\ wr' = wr
          ELSE IF got.val # <<>> THEN
             LET saved == save_to_history(fs[HISTORY_FILE_PATH], got.val, name,
                                          run.timestamp)
             IN
             IF saved.added > 0
             THEN /\ wr' = StartWrite(HISTORY_FILE_PATH, saved.history, "update_rates", fs)
                  /\ run' = [r EXCEPT !.pc = "save_to_history"]
                                @@ [rates_data |-> got.val, added |-> saved.added]
             ELSE /\ wr' = wr
                  /\ run' = ClientSucceeded(r, name, got.val)
          ELSE
             /\ wr' = wr
             /\ run' = ClientSucceeded(r, name, got.val)
    /\ UNCHANGED <<fs, now, nruns, res, direct, others>>

\* the turn of the loop when the answer is one of those the default
\* configuration meets
Fetch(resp) ==
    /\ run.pc = "fetch"
    /\ run.todo # <<>>
    /\ resp \in Responses(Head(run.todo))
    /\ FetchAnswer(resp)

\* a test that lets every run write the cache
AggregateAlways(all_rates_data) == TRUE

\* if all_rates_data: (updater.py line 60)
AggregateNonEmpty(all_rates_data) == all_rates_data # <<>>

\* lines 59-69 up to the cache write
FinishLoop ==
    /\ run.pc = "fetch"
    /\ run.todo = <<>>
    /\ IF AggregateNonEmpty(run.all_rates_data)
       THEN /\ wr' = StartWrite(RATES_FILE_PATH,
                                update_rates_cache(run.all_rates_data, "ParserService",
                                                   run.timestamp),
                                "update_rates", fs)
            /\ run' = [run EXCEPT !.pc = "update_rates_cache"]
       ELSE /\ wr' = wr
            /\ run' = [run EXCEPT !.pc = "done"]
                      @@ [report |-> _build_report(Len(run.all_rates_data), run.timestamp,
                                                   run.sources_info, run.errors)]
    /\ UNCHANGED <<fs, now, nruns, res, direct, others>>

---------------------------------------------------------------------------
(* RatesStorage._atomic_write, step by step *)

\* line 175: open(temp_file, "w") creates or truncates the file
AwOpen ==
    /\ wr.pc = "open"
    /\ fs' = [fs EXCEPT ![OpenedPath(wr.path)] = Partial]
    /\ wr' = [wr EXCEPT !.pc = "dump"]
    /\ UNCHANGED <<now, run, nruns, res, direct, others>>

\* lines 175-176: json.dump writes the document and the file is closed
AwDump ==
    /\ wr.pc = "dump"
    /\ fs' = [fs EXCEPT ![OpenedPath(wr.path)] = JsonFile(wr.data)]
    /\ wr' = [wr EXCEPT !.pc = "replace"]
    /\ UNCHANGED <<now, run, nruns, res, direct, others>>

\* what the caller does once _atomic_write has returned
AfterWrite ==
    IF wr.caller = "update_rates" THEN
        IF run.pc = "save_to_history"
        THEN /\ run' = ClientSucceeded(
                          [k \in DOMAIN run \ {"rates_data", "added"} |-> run[k]],
                          Head(run.todo), run.rates_data)
             /\ direct' = direct
        ELSE /\ run' = [run EXCEPT !.pc = "done"]
                       @@ [report |-> _build_report(Len(run.all_rates_data),
                                                    run.timestamp, run.sources_info,
                                                    run.errors)]
             /\ direct' = direct
    ELSE
        /\ run' = run
        /\ direct' = [direct EXCEPT ![Len(direct)].pc = "returned",
                                    ![Len(direct)].after = fs'[HISTORY_FILE_PATH]]

\* line 177: temp_file.replace(file_path), and the return to the caller
AwReplace ==
    /\ wr.pc = "replace"
    /\ fs' = Replace(fs, OpenedPath(wr.path), wr.path)
    /\ wr' = IdleWrite
    /\ AfterWrite
    /\ UNCHANGED <<now, nruns, res, others>>

\* lines 178-182: the step at hand raises (the disk is full, a permission is
\* missing); the temp file is removed and the error raised to the caller,
\* which does not catch it
AwFail ==
    /\ wr.pc \in {"open", "dump", "replace"}
    /\ fs' = Cleanup(fs, TempPath(wr.path))
    /\ wr' = IdleWrite
    /\ IF wr.caller = "update_rates"
       THEN /\ run' = IF run.pc = "save_to_history" /\ Caught("OSError")
                       THEN ClientFailed(
                               [k \in DOMAIN run \ {"rates_data", "added"} |->
                                   IF k = "pc" THEN "fetch" ELSE run[k]],
                               Head(run.todo), Exc("OSError", wr.path, wr.pc))
                       ELSE RunRaised(run, run.pc, Exc("OSError", wr.path, wr.pc))
                            @@ [write |-> wr]
            /\ direct' = direct
       ELSE /\ run' = run
            /\ direct' = [direct EXCEPT ![Len(direct)].pc = "raised"]
    /\ UNCHANGED <<now, nruns, res, others>>

\* the process is killed in the middle of update_rates: nothing is cleaned up
Crash ==
    /\ run.pc \in {"fetch", "save_to_history", "update_rates_cache"}
    /\ run' = [pc |-> "crashed", at |-> run.pc, before |-> run.before,
               writing |-> wr]
    /\ wr' = IdleWrite
    /\ UNCHANGED <<fs, now, nruns, res, direct, others>>

NextUpdate ==
    \/ \E source \in Sources, how \in {"tick", "second"} : StartRun(source, how)
    \/ \E name \in {"coingecko", "exchangerate"} : \E resp \in Responses(name) : Fetch(resp)
    \/ FinishLoop
    \/ AwOpen
    \/ AwDump
    \/ AwReplace
    \/ AwFail
    \/ Crash

SpecUpdate == InitUpdate /\ [][NextUpdate]_vars

---------------------------------------------------------------------------
(* The storage called directly: save_to_history(rates_data, source, timestamp) *)

Item(key, rate) == [k |-> key, v |-> [rate |-> rate, meta |-> EmptyFn]]

\* the rates_data arguments passed
DirectRates ==
    { << Item(PairKey("EUR", "USD"), R(2, 1)) >>,
      << Item(PairKey("BTC", "USD"), R(3, 1)), Item(PairKey("EUR", "USD"), R(2, 1)) >>,
      << Item(PairKey("EUR", "US_D"), R(2, 1)) >>,
      << >> }

InitStore == InitUpdate

\* the last two calls
LastTwo(log) == IF Len(log) > 2 THEN Tail(log) ELSE log

\* the `source` arguments passed
DirectSources == {"manual", "coingecko"}

\* save_to_history(rates_data, source, timestamp), lines 29-74 up to the write;
\* given = FALSE passes timestamp = None
DirectSave(rates_data, source, given, how) ==
    /\ wr.pc = "idle"
    /\ nruns < MaxCalls
    /\ nruns' = nruns + 1
    /\ now' = Advance(now, how)
    /\ LET timestamp == IF given THEN NowUtc(now') ELSE UtcNow(now')
           saved == save_to_history(fs[HISTORY_FILE_PATH], rates_data, source, timestamp)
           call == [rates_data |-> rates_data, source |-> source, timestamp |-> timestamp,
                    before |-> fs[HISTORY_FILE_PATH], after |-> fs[HISTORY_FILE_PATH],
                    ret |-> saved.added,
                    pc |-> IF saved.added > 0 THEN "writing" ELSE "returned"]
       IN
       /\ direct' = LastTwo(Append(direct, call))
       /\ wr' = IF saved.added > 0
                THEN StartWrite(HISTORY_FILE_PATH, saved.history, "direct", fs)
                ELSE wr
    /\ UNCHANGED <<fs, run, res, others>>

NextStore ==
    \/ \E rates_data \in DirectRates, source \in DirectSources, given \in BOOLEAN,
          how \in {"tick", "second"} :
          DirectSave(rates_data, source, given, how)
    \/ AwOpen
    \/ AwDump
    \/ AwReplace
    \/ AwFail

SpecStore == InitStore /\ [][NextStore]_vars

---------------------------------------------------------------------------
(* RatesStorage.get_history(from_currency, to_currency, limit) *)

\* the string timestamp.isoformat() + "Z" as the sequence of what is compared
\* when two such strings of one date are: the second, then the character
\* that follows it ("+" < "." < "Z"), then the microseconds and the character
\* that follows them
IsoKey(iso) ==
    IF iso.usec = 0
    THEN <<iso.sec, IF iso.tail = "Z" THEN 2 ELSE 0, 0, 0>>
    ELSE <<iso.sec, 1, iso.usec, IF iso.tail = "Z" THEN 1 ELSE 0>>

\* a < b for two sequences of four numbers, in lexicographic order
KeyLess(a, b) ==
    \E i \in 1..4 : a[i] < b[i] /\ \A j \in 1..(i - 1) : a[j] = b[j]

\* r.get("timestamp", "") as a sort key
TimestampKey(r) == IsoKey(r.timestamp)

\* history.sort(key=..., reverse=True): a stable sort, largest key first,
\* records of equal keys in their order in the list
RECURSIVE SortNewestFirst(_)
SortNewestFirst(history) ==
    IF history = <<>> THEN <<>>
    ELSE
        LET n == Len(history)
            sorted == SortNewestFirst(SubSeq(history, 1, n - 1))
            r == history[n]
            \* r goes after every record whose key is not smaller than its own
            k == Cardinality({ i \in DOMAIN sorted :
                                  ~KeyLess(TimestampKey(sorted[i]), TimestampKey(r)) })
        IN  SubSeq(sorted, 1, k) \o <<r>> \o SubSeq(sorted, k + 1, Len(sorted))

\* the `limit` arguments: None, or a number
NoLimit == [given |-> FALSE, n |-> 0]
Limit(n) == [given |-> TRUE, n |-> n]

\* history[:limit] if limit else history, for limit >= 0 or None
Slice(history, limit) ==
    IF limit.given /\ limit.n # 0
    THEN SubSeq(history, 1, IF limit.n < Len(history) THEN limit.n ELSE Len(history))
    ELSE history

\* RatesStorage.get_history; "" stands for a filter that is None
get_history(file, from_currency, to_currency, limit) ==
    LET history == _read_history(file)
        by_from == IF from_currency # ""
                   THEN SelectSeq(history, LAMBDA r : r.from_currency = from_currency)
                   ELSE history
        by_to == IF to_currency # ""
                 THEN SelectSeq(by_from, LAMBDA r : r.to_currency = to_currency)
                 ELSE by_from
    IN  Slice(SortNewestFirst(by_to), limit)

\* the arguments get_history is called with
HistoryFrom == {"", "EUR", "BTC"}
HistoryTo == {"", "USD"}
HistoryLimits == {NoLimit, Limit(0), Limit(1), Limit(2)}

\* storage.get_history(from_currency, to_currency, limit) is called between
\* two writes
GetHistory(from_currency, to_currency, limit) ==
    /\ wr.pc = "idle"
    /\ hist = NoHistoryCall
    /\ hist' = [pc |-> "returned", from |-> from_currency, to |-> to_currency,
                limit |-> limit, before |-> fs[HISTORY_FILE_PATH],
                out |-> get_history(fs[HISTORY_FILE_PATH], from_currency,
                                    to_currency, limit)]
    /\ UNCHANGED <<fs, now, run, wr, nruns, res, direct, ws, db>>

\* save_to_history calls, then one get_history call
NextHistory ==
    \/ hist = NoHistoryCall /\ NextStore
    \/ \E from_currency \in HistoryFrom, to_currency \in HistoryTo,
          limit \in HistoryLimits :
          GetHistory(from_currency, to_currency, limit)

SpecHistory == InitStore /\ [][NextHistory]_vars

---------------------------------------------------------------------------
(* update_rates of RatesUpdater(ParserConfig(FIAT_CURRENCIES=["BTC", "EUR"])):
   both providers are asked for BTC *)

OverlapFiat == <<"BTC", "EUR">>

\* the answers the clients of that configuration meet: CoinGecko gives BTC
\* at 2, or times out; ExchangeRate-API gives BTC at 7 and EUR at 4, BTC at 2,
\* EUR at 4 alone, or the connection fails
OverlapResponses(name) ==
    IF name = "coingecko"
    THEN { Timeout, Http(200, JObj("bitcoin" :> Price(JNum(R(2, 1))))) }
    ELSE { ConnectionError @@ [fiat |-> OverlapFiat] }
         \cup { Http(200, Rates("USD", f)) @@ [fiat |-> OverlapFiat] :
                   f \in { ("BTC" :> JNum(R(7, 1))) @@ ("EUR" :> JNum(R(4, 1))),
                           ("BTC" :> JNum(R(2, 1))),
                           ("EUR" :> JNum(R(4, 1))) } }

\* the turn of the loop under that configuration
FetchOverlap(resp) ==
    /\ run.pc = "fetch"
    /\ run.todo # <<>>
    /\ resp \in OverlapResponses(Head(run.todo))
    /\ FetchAnswer(resp)

NextOverlap ==
    \/ \E source \in Sources, how \in {"tick", "second"} : StartRun(source, how)
    \/ \E name \in {"coingecko", "exchangerate"} :
          \E resp \in OverlapResponses(name) : FetchOverlap(resp)
    \/ FinishLoop
    \/ AwOpen
    \/ AwDump
    \/ AwReplace
    \/ AwFail
    \/ Crash

SpecOverlap == InitUpdate /\ [][NextOverlap]_vars

---------------------------------------------------------------------------
(* The updater and the resolver over one data directory *)

MaxSystemRuns == 1

\* the config.json files the application is started with: none, one that
\* does not decode, one that sets another key, one that sets DATA_DIR
ConfigFiles ==
    { Missing, Partial, JsonFile([LOG_LEVEL |-> "DEBUG"]),
      JsonFile([DATA_DIR |-> "var"]) }

InitSystem ==
    /\ fs \in { [EmptyDir EXCEPT ![CONFIG_PATH] = c] : c \in ConfigFiles }
    /\ now = Epoch
    /\ run = IdleRun
    /\ wr = IdleWrite
    /\ nruns = 0
    /\ res = NoCallYet
    /\ direct = <<>>
    /\ hist = NoHistoryCall
    /\ ws = NoWriters
    /\ db = NoDb

\* update_rates runs, then one get_rate call once a run is over
NextSystem ==
    /\ res = NoCallYet
    /\ \/ NextUpdate /\ nruns' <= MaxSystemRuns
       \/ /\ RunOver
          /\ wr.pc = "idle"
          /\ \E from \in QueryCodes, to \in QueryCodes : GetRate(from, to)

SpecSystem == InitSystem /\ [][NextSystem]_vars

---------------------------------------------------------------------------
(* Two update runs, in two processes, write the cache at the same time: each
   runs RatesStorage._atomic_write(RATES_FILE_PATH, data), lines 171-182, and
   both use the temp file rates.json.tmp *)

MaxWrites == 3

Writers == {1, 2}

\* the aggregate maps the runs write
RaceRates ==
    { << Item(PairKey("BTC", "USD"), R(2, 1)) >>,
      << Item(PairKey("BTC", "USD"), R(3, 1)), Item(PairKey("EUR", "USD"), R(2, 1)) >> }

\* where the file a writer holds open is found after temp_file was renamed
\* onto file_path: the open file moves with the rename, and the file that was
\* at file_path is no longer in the directory
Renamed(at, temp_file, file_path) ==
    IF at = temp_file THEN file_path
    ELSE IF at = file_path THEN "gone"
    ELSE at

\* what a file holds after a document was written from its start: the
\* document when the file was empty; when it held another document, the new
\* one, or the new one followed by the rest of the longer old one
Overwritten(file, data) ==
    IF file.st = "json" /\ file.v # data
    THEN {JsonFile(data), Partial}
    ELSE {JsonFile(data)}

\* a run reaches update_rates_cache (updater.py lines 60-65) with its
\* aggregate map and timestamp
RaceStart(w, rates_data) ==
    /\ ws[w].pc \in {"idle", "returned", "raised"}
    /\ nruns < MaxWrites
    /\ nruns' = nruns + 1
    /\ now' = Advance(now, "tick")
    /\ ws' = [ws EXCEPT ![w] =
                 [pc |-> "open", at |-> "none",
                  data |-> update_rates_cache(rates_data, "ParserService",
                                              NowUtc(now'))]]
    /\ UNCHANGED <<fs, run, wr, res, direct, hist, db>>

\* line 175: open(temp_file, "w") creates the file, or truncates the one that
\* is there, another writer's included
RaceOpen(w) ==
    /\ ws[w].pc = "open"
    /\ fs' = [fs EXCEPT ![TempPath(RATES_FILE_PATH)] = Partial]
    /\ ws' = [ws EXCEPT ![w].pc = "dump", ![w].at = TempPath(RATES_FILE_PATH)]
    /\ UNCHANGED <<now, run, wr, nruns, res, direct, hist, db>>

\* lines 175-176: json.dump writes the document into the file the writer
\* holds open, wherever it is by now, and the file is closed
RaceDump(w) ==
    /\ ws[w].pc = "dump"
    /\ IF ws[w].at = "gone"
       THEN fs' = fs
       ELSE \E file \in Overwritten(fs[ws[w].at], ws[w].data) :
                fs' = [fs EXCEPT ![ws[w].at] = file]
    /\ ws' = [ws EXCEPT ![w].pc = "replace", ![w].at = "none"]
    /\ UNCHANGED <<now, run, wr, nruns, res, direct, hist, db>>

\* line 177: temp_file.replace(file_path) renames whatever is at the temp
\* path; with no file there it raises FileNotFoundError and the writer enters
\* the except block
RaceReplace(w) ==
    /\ ws[w].pc = "replace"
    /\ LET temp_file == TempPath(RATES_FILE_PATH) IN
       IF fs[temp_file].st = "missing"
       THEN /\ fs' = fs
            /\ ws' = [ws EXCEPT ![w].pc = "except"]
       ELSE /\ fs' = Replace(fs, temp_file, RATES_FILE_PATH)
            /\ ws' = [v \in DOMAIN ws |->
                         IF v = w THEN [ws[v] EXCEPT !.pc = "returned"]
                         ELSE IF ws[v].pc = "dump"
                         THEN [ws[v] EXCEPT !.at = Renamed(ws[v].at, temp_file,
                                                           RATES_FILE_PATH)]
                         ELSE ws[v]]
    /\ UNCHANGED <<now, run, wr, nruns, res, direct, hist, db>>

\* where the file a writer holds open is found after temp_file was unlinked
Unlinked(at, temp_file) == IF at = temp_file THEN "gone" ELSE at

\* lines 178-182, the except block: if temp_file.exists() it is unlinked,
\* the other writer's temp file included, and the error is raised
RaceExcept(w) ==
    /\ ws[w].pc = "except"
    /\ LET temp_file == TempPath(RATES_FILE_PATH) IN
       IF fs[temp_file].st = "missing"
       THEN /\ fs' = fs
            /\ ws' = [ws EXCEPT ![w].pc = "raised"]
       ELSE /\ fs' = Cleanup(fs, temp_file)
            /\ ws' = [v \in DOMAIN ws |->
                         IF v = w THEN [ws[v] EXCEPT !.pc = "raised"]
                         ELSE IF ws[v].pc = "dump"
                         THEN [ws[v] EXCEPT !.at = Unlinked(ws[v].at, temp_file)]
                         ELSE ws[v]]
    /\ UNCHANGED <<now, run, wr, nruns, res, direct, hist, db>>

NextRace ==
    \/ \E w \in Writers, rates_data \in RaceRates : RaceStart(w, rates_data)
    \/ \E w \in Writers : RaceOpen(w)
    \/ \E w \in Writers : RaceDump(w)
    \/ \E w \in Writers : RaceReplace(w)
    \/ \E w \in Writers : RaceExcept(w)

SpecRace == InitUpdate /\ [][NextRace]_vars

---------------------------------------------------------------------------
(* core/usecases.py: AuthService and PortfolioService over
   infra/database.py *)

MaxAccountCalls == 3

\* str.strip() for the names the model passes
Strip(username) ==
    CASE username = " bob" -> "bob"
      [] username = " " -> ""
      [] OTHER -> username

\* len(password) for the passwords the model passes
PasswordLen(password) == IF password = "abc" THEN 3 ELSE 4

\* User._hash_password(password, salt); the salt, drawn at random for each
\* user, is left out
Hash(password) == <<"sha256", password>>

\* the arguments callers pass
Usernames == {"bob", " bob", "amy", "eve", "", " "}
Passwords == {"abc", "abcd"}
UserIds == {1, 2}
TradeCurrencies == {"BTC", "EUR", "USD", "XYZ"}
Amounts == {R(1, 10), R(1, 1), R(0, 1)}

\* DatabaseManager._load_data(file_path, []) : the list read, and the file as
\* it is afterwards (a missing or undecodable file is written with the
\* default)
LoadList(file) == IF file.st = "json" THEN file.v ELSE <<>>
LoadListFile(file) == IF file.st = "json" THEN file ELSE JsonFile(<<>>)

\* max([u.user_id for u in users] or [0])
MaxUserId(users) ==
    IF users = <<>> THEN 0
    ELSE CHOOSE m \in { users[i].user_id : i \in DOMAIN users } :
             \A i \in DOMAIN users : users[i].user_id <= m

\* User.__init__ (models.py lines 49-63): the user, or ValueError
User(user_id, username, password) ==
    IF username = "" \/ Strip(username) = ""
    THEN Err(Exc("ValueError", "User", "empty username"))
    ELSE IF PasswordLen(password) < 4
    THEN Err(Exc("ValueError", "User", "short password"))
    ELSE Val([user_id |-> user_id, username |-> Strip(username),
              hashed_password |-> Hash(password)])

\* Portfolio(user_id) with a USD wallet holding the starting capital
NewPortfolio(user_id) ==
    [user_id |-> user_id,
     wallets |-> <<[currency_code |-> "USD", balance |-> R(10000, 1)]>>]

\* the state of the two files and of the cache file before a call
FilesBefore == [users |-> db.users, portfolios |-> db.portfolios,
                rates |-> fs[rates_path]]

\* AuthService.register(username, password), lines 29-53
Register(username, password) ==
    /\ nruns < MaxAccountCalls
    /\ nruns' = nruns + 1
    /\ LET users == LoadList(db.users)
           usersFile == LoadListFile(db.users)
           call == [op |-> "register", username |-> username,
                    password |-> password, before |-> FilesBefore]
       IN
       IF \E i \in DOMAIN users : users[i].username = username THEN
           db' = [db EXCEPT !.users = usersFile,
                            !.last = call @@ [pc |-> "raised",
                                              exc |-> Exc("ValueError", "register",
                                                          "username taken")]]
       ELSE
           LET new_user_id == MaxUserId(users) + 1
               new_user == User(new_user_id, username, password)
           IN
           IF ~new_user.ok THEN
               db' = [db EXCEPT !.users = usersFile,
                                !.last = call @@ [pc |-> "raised", exc |-> new_user.err]]
           ELSE
               db' = [users |-> JsonFile(Append(users, new_user.val)),
                      portfolios |-> JsonFile(Append(LoadList(db.portfolios),
                                                     NewPortfolio(new_user_id))),
                      last |-> call @@ [pc |-> "returned", user |-> new_user.val]]
    /\ UNCHANGED <<fs, now, run, wr, res, direct, hist, ws>>

\* the first index of the list whose record has the value in the field, or 0
FirstWith(list, field, value) ==
    IF \E i \in DOMAIN list : list[i][field] = value
    THEN CHOOSE i \in DOMAIN list :
            /\ list[i][field] = value
            /\ \A j \in 1..(i - 1) : list[j][field] # value
    ELSE 0

\* AuthService.login(username, password), lines 56-67: the user, or ValueError
login(users, username, password) ==
    LET i == FirstWith(users, "username", username) IN
    IF i = 0 THEN Err(Exc("ValueError", "login", "user not found"))
    ELSE IF Hash(password) # users[i].hashed_password
    THEN Err(Exc("ValueError", "login", "wrong password"))
    ELSE Val(users[i])

Login(username, password) ==
    /\ nruns < MaxAccountCalls
    /\ nruns' = nruns + 1
    /\ LET out == login(LoadList(db.users), username, password) IN
       db' = [db EXCEPT !.users = LoadListFile(db.users),
                        !.last = [op |-> "login", username |-> username,
                                  password |-> password, before |-> FilesBefore,
                                  pc |-> IF out.ok THEN "returned" ELSE "raised",
                                  out |-> out]]
    /\ UNCHANGED <<fs, now, run, wr, res, direct, hist, ws>>

\* PortfolioService.get_portfolio(user_id), lines 146-152: the portfolio, or
\* ValueError
get_portfolio(portfolios, user_id) ==
    LET i == FirstWith(portfolios, "user_id", user_id) IN
    IF i = 0 THEN Err(Exc("ValueError", "get_portfolio", "portfolio not found"))
    ELSE Val(portfolios[i])

GetPortfolio(user_id) ==
    /\ nruns < MaxAccountCalls
    /\ nruns' = nruns + 1
    /\ LET out == get_portfolio(LoadList(db.portfolios), user_id) IN
       db' = [db EXCEPT !.portfolios = LoadListFile(db.portfolios),
                        !.last = [op |-> "get_portfolio", user_id |-> user_id,
                                  before |-> FilesBefore,
                                  pc |-> IF out.ok THEN "returned" ELSE "raised",
                                  out |-> out]]
    /\ UNCHANGED <<fs, now, run, wr, res, direct, hist, ws>>

\* Wallet.withdraw(amount) on the i-th wallet (models.py lines 197-213)
Withdraw(wallets, i, amount) ==
    IF NotPositive(amount) THEN Err(Exc("ValueError", "withdraw", "not positive"))
    ELSE IF Less(wallets[i].balance, amount)
    THEN Err(Exc("ValueError", "withdraw", "insufficient funds"))
    ELSE Val([wallets EXCEPT ![i].balance = Sub(wallets[i].balance, amount)])

\* Wallet.deposit(amount) on the i-th wallet (models.py lines 181-195)
Deposit(wallets, i, amount) ==
    IF NotPositive(amount) THEN Err(Exc("ValueError", "deposit", "not positive"))
    ELSE Val([wallets EXCEPT ![i].balance = Add(wallets[i].balance, amount)])

\* portfolio.get_wallet(code) or portfolio.add_currency(code): the wallets
\* with one for the code, a new one being empty and last
WithWallet(wallets, code) ==
    IF FirstWith(wallets, "currency_code", code) # 0 THEN wallets
    ELSE Append(wallets, [currency_code |-> code, balance |-> R(0, 1)])

\* what a call of PortfolioService leaves: the two files and its outcome
Traded(portfolios, rates, out) ==
    [portfolios |-> portfolios, rates |-> rates, out |-> out]

\* the exception of a failed get_rate
RateError(rate) == Exc(rate.kind, "get_rate", rate.msg)

\* the cache file after the get_rate call
RatesFileAfter(file, rate) == IF rate.read THEN LoadRatesFile(file) ELSE file

\* the portfolios file rewritten with the user's portfolio (lines 208-215)
SavePortfolio(portfolios, i, wallets) ==
    JsonFile([portfolios EXCEPT ![i].wallets = wallets])

\* a call that fails after its reads, the portfolios file being as loaded
Failed(call, out) == Traded(call.loaded, call.rates, out)

\* the save of the user's portfolio and the returned dictionary (buy: lines
\* 208-224, sell: lines 275-291)
Saved(call, wallets, result) ==
    Traded(SavePortfolio(call.portfolios,
                         FirstWith(call.portfolios, "user_id", call.user_id),
                         wallets),
           call.rates,
           Val([currency |-> call.currency, amount |-> call.amount] @@ result))

\* buy_currency, lines 203-224: after target_wallet.deposit(amount)
BuyDeposited(call, rate, cost_in_usd, old_balance, target, deposited) ==
    IF ~deposited.ok THEN Failed(call, deposited)
    ELSE Saved(call, deposited.val,
               [rate |-> rate, cost |-> cost_in_usd, old_balance |-> old_balance,
                new_balance |-> deposited.val[target].balance])

\* buy_currency, lines 198-203: the wallet of the currency, a new one if
\* need be, and the deposit
BuyInto(call, rate, cost_in_usd, with) ==
    LET target == FirstWith(with, "currency_code", Upper(call.currency))
    IN  BuyDeposited(call, rate, cost_in_usd, with[target].balance, target,
                     Deposit(with, target, call.amount))

\* buy_currency, lines 195-198: after usd_wallet.withdraw(cost_in_usd)
BuyWithdrawn(call, rate, cost_in_usd, withdrawn) ==
    IF ~withdrawn.ok THEN Failed(call, withdrawn)
    ELSE BuyInto(call, rate, cost_in_usd,
                 WithWallet(withdrawn.val, Upper(call.currency)))

\* buy_currency, lines 183-195: the check of the USD wallet and the withdrawal
BuyFor(call, rate, cost_in_usd) ==
    LET usd == FirstWith(call.wallets, "currency_code", "USD") IN
    IF usd = 0 \/ Less(call.wallets[IF usd = 0 THEN 1 ELSE usd].balance, cost_in_usd)
    THEN Failed(call, Err(Exc("InsufficientFundsError", "buy", "USD")))
    ELSE BuyWithdrawn(call, rate, cost_in_usd,
                      Withdraw(call.wallets, usd, cost_in_usd))

\* buy_currency, line 180: cost_in_usd = amount * rate
BuyAt(call, rate) == BuyFor(call, rate, FloatMul(call.amount, rate))

\* buy_currency, lines 179-180: after get_rate(currency, "USD")
BuyRated(call, rate) ==
    IF rate.kind # "ok"
    THEN Failed([call EXCEPT !.rates = RatesFileAfter(@, rate)], Err(RateError(rate)))
    ELSE BuyAt([call EXCEPT !.rates = RatesFileAfter(@, rate)], rate.rate)

\* PortfolioService.buy_currency(user_id, currency, amount), lines 155-224
buy_currency(portfoliosFile, ratesFile, user_id, currency, amount) ==
    IF NotPositive(amount) THEN
        Traded(portfoliosFile, ratesFile, Err(Exc("ValueError", "buy", "amount")))
    ELSE IF ~get_currency(currency) THEN
        Traded(portfoliosFile, ratesFile,
               Err(Exc("CurrencyNotFoundError", "buy", currency)))
    ELSE
    LET portfolios == LoadList(portfoliosFile)
        loaded == LoadListFile(portfoliosFile)
        portfolio == get_portfolio(portfolios, user_id)
    IN
    IF ~portfolio.ok THEN Traded(loaded, ratesFile, portfolio)
    ELSE BuyRated([portfolios |-> portfolios, loaded |-> loaded, rates |-> ratesFile,
                   user_id |-> user_id, currency |-> currency, amount |-> amount,
                   wallets |-> portfolio.val.wallets],
                  get_rate(ratesFile, currency, "USD", 0))

\* sell_currency, lines 273-291: after usd_wallet.deposit(proceeds_in_usd)
SellDeposited(call, rate, proceeds_in_usd, deposited) ==
    IF ~deposited.ok THEN Failed(call, deposited)
    ELSE Saved(call, deposited.val,
               [rate |-> rate, proceeds |-> proceeds_in_usd,
                old_balance |-> call.wallets[call.target].balance,
                new_balance |-> deposited.val[call.target].balance])

\* sell_currency, lines 270-273: the USD wallet, a new one if need be, and
\* the deposit
SellFor(call, rate, proceeds_in_usd, with) ==
    SellDeposited(call, rate, proceeds_in_usd,
                  Deposit(with, FirstWith(with, "currency_code", "USD"),
                          proceeds_in_usd))

\* sell_currency, line 268: proceeds_in_usd = amount * rate
SellAt(call, rate, wallets) ==
    SellFor(call, rate, FloatMul(call.amount, rate), WithWallet(wallets, "USD"))

\* sell_currency, lines 267-268: after get_rate(currency, "USD")
SellRated(call, rate, wallets) ==
    IF rate.kind # "ok"
    THEN Failed([call EXCEPT !.rates = RatesFileAfter(@, rate)], Err(RateError(rate)))
    ELSE SellAt([call EXCEPT !.rates = RatesFileAfter(@, rate)], rate.rate, wallets)

\* sell_currency, lines 264-267: after target_wallet.withdraw(amount)
SellWithdrawn(call, ratesFile, withdrawn) ==
    IF ~withdrawn.ok THEN Failed(call, withdrawn)
    ELSE SellRated(call, get_rate(ratesFile, call.currency, "USD", 0), withdrawn.val)

\* PortfolioService.sell_currency(user_id, currency, amount), lines 227-291
sell_currency(portfoliosFile, ratesFile, user_id, currency, amount) ==
    IF NotPositive(amount) THEN
        Traded(portfoliosFile, ratesFile, Err(Exc("ValueError", "sell", "amount")))
    ELSE IF ~get_currency(currency) THEN
        Traded(portfoliosFile, ratesFile,
               Err(Exc("CurrencyNotFoundError", "sell", currency)))
    ELSE
    LET portfolios == LoadList(portfoliosFile)
        loaded == LoadListFile(portfoliosFile)
        portfolio == get_portfolio(portfolios, user_id)
    IN
    IF ~portfolio.ok THEN Traded(loaded, ratesFile, portfolio)
    ELSE
    LET wallets == portfolio.val.wallets
        target == FirstWith(wallets, "currency_code", Upper(currency))
    IN
    IF target = 0 THEN
        Traded(loaded, ratesFile, Err(Exc("CurrencyNotFoundError", "sell", currency)))
    ELSE IF Less(wallets[target].balance, amount) THEN
        Traded(loaded, ratesFile, Err(Exc("InsufficientFundsError", "sell", currency)))
    ELSE SellWithdrawn([portfolios |-> portfolios, loaded |-> loaded,
                        rates |-> ratesFile, user_id |-> user_id,
                        currency |-> currency, amount |-> amount,
                        wallets |-> wallets, target |-> target],
                       ratesFile, Withdraw(wallets, target, amount))

\* a buy_currency or sell_currency call and what it leaves in the files
Trade(op, traded, user_id, currency, amount) ==
    /\ nruns < MaxAccountCalls
    /\ nruns' = nruns + 1
    /\ db' = [db EXCEPT !.portfolios = traded.portfolios,
                        !.last = [op |-> op, user_id |-> user_id,
                                  currency |-> currency, amount |-> amount,
                                  before |-> FilesBefore,
                                  pc |-> IF traded.out.ok THEN "returned" ELSE "raised",
                                  out |-> traded.out]]
    /\ fs' = [fs EXCEPT ![rates_path] = traded.rates]
    /\ UNCHANGED <<now, run, wr, res, direct, hist, ws>>

BuyCurrency(user_id, currency, amount) ==
    Trade("buy_currency",
          buy_currency(db.portfolios, fs[rates_path], user_id, currency, amount),
          user_id, currency, amount)

SellCurrency(user_id, currency, amount) ==
    Trade("sell_currency",
          sell_currency(db.portfolios, fs[rates_path], user_id, currency, amount),
          user_id, currency, amount)

NextAuth ==
    \/ \E username \in Usernames, password \in Passwords :
          Register(username, password)
    \/ \E username \in Usernames, password \in Passwords : Login(username, password)
    \/ \E user_id \in UserIds : GetPortfolio(user_id)
    \/ \E user_id \in UserIds, currency \in TradeCurrencies, amount \in Amounts :
          BuyCurrency(user_id, currency, amount)
    \/ \E user_id \in UserIds, currency \in TradeCurrencies, amount \in Amounts :
          SellCurrency(user_id, currency, amount)

SpecAuth == InitUpdate /\ [][NextAuth]_vars

---------------------------------------------------------------------------
(* Claims about the resolver, checked under SpecResolve *)

\* the last call found a cache object in the file
Called == res.out.kind # "none"
CacheRead == IF res.before.st = "json" THEN res.before.v ELSE EmptyDict

\* the cache holds key A_B with a rate r > 0, where the call was get_rate(B, A)
ReverseCached ==
    /\ Called
    /\ HasRate(CacheRead, PairKey(res.to, res.from))
    /\ IsPositive(CacheRead.pairs[PairKey(res.to, res.from)].rate)

ReverseRate == CacheRead.pairs[PairKey(res.to, res.from)].rate

\* C1 as stated: for every cache content and every cached pair key A_B whose
\* rate r is > 0, get_rate(B, A) returns 1/r.
C1_ReverseAlwaysReciprocal ==
    ReverseCached =>
        (res.out.kind = "ok" /\ res.out.rate = FloatDiv(R(1, 1), ReverseRate))

\* C1 amended: for every cache content and every cached pair key A_B whose
\* rate r is > 0, with A and B registered codes and no entry B_A carrying a
\* rate in the cache, get_rate(B, A) returns 1/r.
C1_ReverseReciprocal ==
    ( /\ ReverseCached
      /\ res.from \in _CURRENCY_REGISTRY
      /\ res.to \in _CURRENCY_REGISTRY
      /\ ~HasRate(CacheRead, PairKey(res.from, res.to)) )
    => (res.out.kind = "ok" /\ res.out.rate = FloatDiv(R(1, 1), ReverseRate))

\* 0.9259259259259258 = 8340199290966547 / 2^53, the binary64 quotient 1 / 1.08;
\* it lies just below the binary64 number nearest to 25/27
Quotient_1_108 ==
    [n |-> 25, d |-> 27,
     bits |-> [s |-> 1, m |-> <<6674, 606, 3034, 6978, 1>>, e |-> -53]]

\* C1 witness: get_rate("USD", "EUR") on a cache holding EUR_USD = 1.08 and no
\* USD_EUR returned 0.9259259259259258
C1_Witness ==
    /\ ReverseCached
    /\ res.from = "USD" /\ res.to = "EUR"
    /\ ~HasRate(CacheRead, PairKey("USD", "EUR"))
    /\ ReverseRate = R(27, 25)
    /\ res.out.kind = "ok" /\ res.out.rate = Quotient_1_108

\* C2: get_rate called at depth 0 never makes a nested call with depth
\* greater than 2 and always terminates (it makes at most three calls, itself
\* included), for every cache content, a cyclic one included, and every pair
\* of codes.
C2_DepthBounded ==
    Called =>
        /\ \A i \in DOMAIN res.out.calls : res.out.calls[i].depth <= 2
        /\ Len(res.out.calls) <= 3
        /\ res.out.kind \in {"ok", "ValueError", "CurrencyNotFoundError",
                             "ZeroDivisionError"}

\* C2 witness: on a cache that chains EUR_RUB and RUB_BTC, get_rate("EUR",
\* "BTC") made a nested call at depth 1 and ended
C2_Witness ==
    /\ Called
    /\ res.from = "EUR" /\ res.to = "BTC"
    /\ HasRate(CacheRead, PairKey("EUR", "RUB"))
    /\ HasRate(CacheRead, PairKey("RUB", "BTC"))
    /\ \E i \in DOMAIN res.out.calls : res.out.calls[i].depth = 1
    /\ res.out.kind = "ValueError"

\* C3: when the direct entry is absent and the reverse cache entry has rate 0,
\* get_rate never divides by it: the outcome is the rate-unavailable failure
\* (a ValueError), not a division error, at top level and inside a cross-rate
\* leg.
C3_ZeroNeverInverted ==
    /\ Called => res.out.kind # "ZeroDivisionError"
    /\ ( /\ Called
         /\ res.from \in _CURRENCY_REGISTRY /\ res.to \in _CURRENCY_REGISTRY
         /\ ~HasRate(CacheRead, PairKey(res.from, res.to))
         /\ HasRate(CacheRead, PairKey(res.to, res.from))
         /\ IsZero(CacheRead.pairs[PairKey(res.to, res.from)].rate) )
       => res.out.kind = "ValueError"

---------------------------------------------------------------------------
(* Claims about the update pipeline, checked under SpecUpdate *)

RatesNow == fs[RATES_FILE_PATH]
HistoryNow == _read_history(fs[HISTORY_FILE_PATH])

\* the run returned a report
ReportReturned == run.pc = "done"

\* a selected client failed with an ApiRequestError, another succeeded with
\* non-empty rates, and the run returned
OneFailedOneSucceeded ==
    /\ ReportReturned
    /\ \E n \in DOMAIN run.sources_info : ~run.sources_info[n].success
    /\ \E m \in DOMAIN run.sources_info :
          run.sources_info[m].success /\ run.sources_info[m].rates > 0

\* the report marks every failed client, with its error message
FailuresReported ==
    /\ ~run.report.success
    /\ \A n \in DOMAIN run.sources_info :
          ~run.sources_info[n].success =>
              /\ n \in DOMAIN run.report.sources
              /\ ~run.report.sources[n].success
              /\ \E i \in DOMAIN run.errors : run.errors[i][3] = run.report.sources[n].error

\* the cache file holds every key of the run's aggregate, with its rate
CacheHoldsAggregate ==
    /\ RatesNow.st = "json"
    /\ \A key \in OdKeys(run.all_rates_data) :
          /\ key \in DOMAIN RatesNow.v.pairs
          /\ RatesNow.v.pairs[key].rate = OdGet(run.all_rates_data, key).rate

\* the history file holds a record of this run's second for the key
InHistory(key) ==
    \E i \in DOMAIN HistoryNow :
        /\ PairKey(HistoryNow[i].from_currency, HistoryNow[i].to_currency) = key
        /\ HistoryNow[i].id[3].sec = run.timestamp.sec

\* C4: a run in which one provider's fetch fails with an ApiRequestError and
\* another's succeeds with non-empty rates returns success = false, marks the
\* failing provider in sources with its error message, and afterwards the
\* cache file and the history file both contain the succeeding provider's
\* pairs (every key it returned).
C4_PartialFailureKeepsAllKeys ==
    OneFailedOneSucceeded =>
        /\ FailuresReported
        /\ CacheHoldsAggregate
        /\ \A key \in OdKeys(run.all_rates_data) : InHistory(key)

\* C5: however a provider's fetch_rates fails, update_rates still calls
\* fetch_rates on every other selected client, records the failure in that
\* provider's sources entry and returns a report instead of raising: no
\* exception leaves update_rates from a fetch, and a run that is over without
\* a storage error has called every selected client.
C5_FetchFailuresIsolated ==
    /\ run.pc = "raised" => run.at # "fetch_rates"
    /\ ReportReturned => /\ run.fetched = run.selected
                    /\ DOMAIN run.report.sources = { run.selected[i] : i \in DOMAIN run.selected }

\* C7: if update_rates_cache fails at any step of its write, the cache file
\* is what it was before the call, the temp file does not exist and the error
\* is raised to the caller.
C7_FailedWriteLeavesCache ==
    (run.pc = "raised" /\ run.at = "update_rates_cache") =>
        /\ RatesNow = run.write.before
        /\ fs[TempPath(RATES_FILE_PATH)] = Missing
        /\ run.exc.exc = "OSError"

\* C7 witness: the rename of a cache write failed over a cache of an earlier run
C7_Witness ==
    /\ run.pc = "raised" /\ run.at = "update_rates_cache"
    /\ run.write.pc = "replace"
    /\ run.write.before.st = "json"
    /\ RatesNow = run.write.before
    /\ JsonFile(run.write.data) # RatesNow

\* the write of the cache in progress, or cut by a crash
CacheWrite ==
    IF run.pc = "update_rates_cache" THEN wr
    ELSE IF run.pc = "crashed" /\ run.at = "update_rates_cache" THEN run.writing
    ELSE IdleWrite

\* C8: with a single writer, in every state during update_rates_cache, a
\* crash at any point included, the cache file holds the complete previous
\* content or the complete new content, never a partial one.
C8_CacheNeverPartial ==
    /\ RatesNow.st # "partial"
    /\ CacheWrite.pc # "idle" =>
          (RatesNow = CacheWrite.before \/ RatesNow = JsonFile(CacheWrite.data))

\* C8 witness: a crash while the temp file was half written, the cache file
\* still holding an earlier run's content
C8_Witness ==
    /\ run.pc = "crashed" /\ run.at = "update_rates_cache"
    /\ run.writing.pc = "dump"
    /\ fs[TempPath(RATES_FILE_PATH)] = Partial
    /\ RatesNow.st = "json"
    /\ RatesNow = run.writing.before

\* C9: after any sequence of update_rates runs with any provider responses,
\* every pair entry of the cache file has a strictly positive rate.
C9_CacheRatesPositive ==
    RatesNow.st = "json" =>
        \A key \in DOMAIN RatesNow.v.pairs : IsPositive(RatesNow.v.pairs[key].rate)

\* the run wrote the cache and returned
WroteCache == ReportReturned /\ run.all_rates_data # <<>>

\* C10: after an update_rates run that writes the cache, the pair keys of the
\* cache file are exactly the keys of the run's aggregate map, and every
\* entry's updated_at equals the top-level last_refresh, the run's timestamp.
C10_CacheReplacedAsUnit ==
    WroteCache =>
        /\ RatesNow.st = "json"
        /\ DOMAIN RatesNow.v.pairs = OdKeys(run.all_rates_data)
        /\ RatesNow.v.meta.last_refresh = run.report.timestamp
        /\ RatesNow.v.meta.last_refresh =
              [sec |-> run.timestamp.sec, usec |-> run.timestamp.usec, tail |-> "+00:00Z"]
        /\ \A key \in DOMAIN RatesNow.v.pairs :
              RatesNow.v.pairs[key].updated_at = RatesNow.v.meta.last_refresh

\* C10 witness: the run replaced a cache that held a key the new one lacks
C10_Witness ==
    /\ WroteCache
    /\ run.before[RATES_FILE_PATH].st = "json"
    /\ \E key \in DOMAIN run.before[RATES_FILE_PATH].v.pairs :
          key \notin DOMAIN RatesNow.v.pairs
    /\ DOMAIN RatesNow.v.pairs = OdKeys(run.all_rates_data)

---------------------------------------------------------------------------
(* Claims about the storage called directly, checked under SpecStore *)

\* two calls in a row returned, with the same rates_data and timestamps of
\* the same second
SameCallTwice ==
    /\ Len(direct) = 2
    /\ direct[1].pc = "returned" /\ direct[2].pc = "returned"
    /\ direct[1].rates_data = direct[2].rates_data
    /\ direct[1].timestamp.sec = direct[2].timestamp.sec

\* C6: calling save_to_history twice with the same rates_data and timestamps
\* of the same second leaves the history after the second call identical to
\* the history after the first, and the second call returns 0; the return
\* value always equals the number of records the call added to the file.
C6_AppendIdempotent ==
    /\ SameCallTwice =>
          /\ direct[2].ret = 0
          /\ direct[2].after = direct[1].after
          /\ fs[HISTORY_FILE_PATH] = direct[1].after
    /\ \A i \in DOMAIN direct :
          direct[i].pc = "returned" =>
              direct[i].ret = Len(_read_history(direct[i].after))
                              - Len(_read_history(direct[i].before))

\* C6 witness: the first call added two records, the second, later in the
\* same second, none
C6_Witness ==
    /\ SameCallTwice
    /\ direct[1].ret = 2
    /\ direct[2].ret = 0
    /\ direct[1].timestamp.usec # direct[2].timestamp.usec
    /\ Len(HistoryNow) = 2

---------------------------------------------------------------------------
(* More claims about the update pipeline, checked under SpecUpdate *)

\* the names of the clients the run selected
SelectedNames == { run.selected[i] : i \in DOMAIN run.selected }

\* C11: the success field of the report update_rates returns is true if and
\* only if no selected client's fetch failed (it is the conjunction of the
\* success fields of the sources entries), and the report has one sources
\* entry per selected client.
C11_SuccessIffNoFailure ==
    ReportReturned =>
        /\ DOMAIN run.report.sources = SelectedNames
        /\ run.report.success =
              (\A name \in DOMAIN run.report.sources : run.report.sources[name].success)

\* C11 witness: a report over both clients, one failed, the other one's rates
\* saved, and success = false
C11_Witness ==
    /\ ReportReturned
    /\ DOMAIN run.report.sources = {"coingecko", "exchangerate"}
    /\ run.report.sources["coingecko"].success
    /\ ~run.report.sources["exchangerate"].success
    /\ run.report.total_rates > 0
    /\ ~run.report.success

---------------------------------------------------------------------------
(* More claims about the storage called directly, checked under SpecStore *)

\* the records a history file holds, as written on the disk
Records(file) == IF file.st = "json" THEN file.v ELSE <<>>

\* s is a prefix of t
IsPrefix(s, t) == Len(s) <= Len(t) /\ \A i \in DOMAIN s : t[i] = s[i]

\* C12: through any sequence of save_to_history calls, every record that was
\* in the history file is still there after each step, unchanged and at the
\* same place; new records only appear after the existing ones.
C12_HistoryAppendOnly ==
    [][IsPrefix(Records(fs[HISTORY_FILE_PATH]), Records(fs'[HISTORY_FILE_PATH]))]_vars

\* C12 witness: a call appended a record to a history that already held one
C12_Witness ==
    /\ Len(direct) = 2
    /\ direct[2].pc = "returned"
    /\ Len(Records(direct[2].before)) > 0
    /\ direct[2].ret > 0
    /\ IsPrefix(Records(direct[2].before), Records(fs[HISTORY_FILE_PATH]))
    /\ Len(Records(fs[HISTORY_FILE_PATH])) = Len(Records(direct[2].before)) + direct[2].ret

\* C13: after any sequence of save_to_history calls, with any sources and
\* timestamps, starting from an empty history, no two records of the history
\* file have the same id (from, to and the timestamp to the second).
C13_HistoryIdsUnique ==
    LET history == Records(fs[HISTORY_FILE_PATH]) IN
    \A i, j \in DOMAIN history :
        i # j =>
            /\ history[i].id # history[j].id
            /\ <<history[i].from_currency, history[i].to_currency, history[i].id[3].sec>>
               # <<history[j].from_currency, history[j].to_currency, history[j].id[3].sec>>

\* C13 witness: the same pair offered again within the second by another
\* source was refused, and the history holds the pair once for that second
C13_Witness ==
    /\ Len(direct) = 2
    /\ direct[1].pc = "returned" /\ direct[2].pc = "returned"
    /\ direct[1].source # direct[2].source
    /\ direct[1].rates_data = direct[2].rates_data
    /\ direct[1].timestamp.sec = direct[2].timestamp.sec
    /\ direct[1].ret = 1
    /\ direct[2].ret = 0
    /\ Len(Records(fs[HISTORY_FILE_PATH])) >= 1

---------------------------------------------------------------------------
(* More claims about the resolver, checked under SpecResolve *)

\* the codes of the last call as get_rate compares them
FromAsked == Upper(res.from)
ToAsked == Upper(res.to)

\* C14: for every registered currency code X and every cache content,
\* get_rate(X, X) returns 1.0.
C14_IdentityIsOne ==
    (Called /\ res.from = res.to /\ res.from \in _CURRENCY_REGISTRY) =>
        (res.out.kind = "ok" /\ res.out.rate = R(1, 1))

\* C14 witness: get_rate("BTC", "BTC") gave 1.0 over a cache that holds rates
\* for BTC pairs
C14_Witness ==
    /\ Called
    /\ res.from = "BTC" /\ res.to = "BTC"
    /\ HasRate(CacheRead, PairKey("BTC", "EUR"))
    /\ res.out.kind = "ok"
    /\ res.out.rate = R(1, 1)

\* C15: if either code passed to get_rate is not in the currency registry,
\* the call fails with CurrencyNotFoundError before the cache is read,
\* whatever the cache contains: the cache file is not read, hence left as it
\* was.
C15_UnknownCodeFailsFirst ==
    (Called /\ (FromAsked \notin _CURRENCY_REGISTRY \/ ToAsked \notin _CURRENCY_REGISTRY)) =>
        /\ res.out.kind = "CurrencyNotFoundError"
        /\ ~res.out.read
        /\ Len(res.out.calls) = 1
        /\ fs[RATES_FILE_PATH] = res.before

\* C15 witness: get_rate("XYZ", "USD") failed although the cache holds a rate
\* under XYZ_USD
C15_Witness ==
    /\ Called
    /\ res.from = "XYZ" /\ res.to = "USD"
    /\ HasRate(CacheRead, PairKey("XYZ", "USD"))
    /\ res.out.kind = "CurrencyNotFoundError"

\* C16: when neither a direct nor a reverse entry exists and a leg of the
\* cross-rate derivation fails for any reason, the top-level get_rate fails
\* with the rate-unavailable ValueError for the requested pair; no error of an
\* inner leg reaches the caller.
C16_InnerErrorsHidden ==
    (Called /\ Len(res.out.calls) > 1 /\ res.out.kind # "ok") =>
        /\ res.out.kind = "ValueError"
        /\ res.out.msg = <<"unavailable", FromAsked, ToAsked>>

\* the rate of the call came from an entry of the cache read
FromCache(call) ==
    \/ HasRate(CacheRead, PairKey(Upper(call.from), Upper(call.to)))
    \/ HasRate(CacheRead, PairKey(Upper(call.to), Upper(call.from)))

\* C17: get_rate consults FALLBACK_RATES if and only if the cache read gives
\* an entirely empty mapping. Over an empty cache a pair of the table gets the
\* table's rate and the reverse of one the float quotient 1 / rate; over a
\* cache with at least one key every rate a successful call used is an entry
\* of the cache.
C17_FallbackIffEmpty ==
    LET pair == PairKey(FromAsked, ToAsked)
        reverse_pair == PairKey(ToAsked, FromAsked)
    IN
    (Called /\ res.out.read) =>
        IF DictIsEmpty(CacheRead) THEN
            /\ HasRate(FALLBACK_RATES, pair) =>
                  /\ res.out.kind = "ok"
                  /\ res.out.rate = FALLBACK_RATES.pairs[pair].rate
            /\ (~HasRate(FALLBACK_RATES, pair) /\ HasRate(FALLBACK_RATES, reverse_pair)) =>
                  /\ res.out.kind = "ok"
                  /\ res.out.rate =
                         FloatDiv(R(1, 1), FALLBACK_RATES.pairs[reverse_pair].rate)
        ELSE
            res.out.kind = "ok" =>
                \A i \in DOMAIN res.out.calls :
                    (Len(res.out.calls) = 1 \/ i > 1) => FromCache(res.out.calls[i])

\* C17 witness: the cache holds only a top-level "source" key, and
\* get_rate("EUR", "USD"), a pair of the fallback table, is unavailable
C17_Witness ==
    /\ Called
    /\ res.before = JsonFile([pairs |-> EmptyFn, meta |-> [source |-> "ParserService"]])
    /\ res.from = "EUR" /\ res.to = "USD"
    /\ res.out.read
    /\ res.out.kind = "ValueError"

---------------------------------------------------------------------------
(* Claims about the errors of an update run, checked under SpecUpdate *)

\* C18: if the write of save_to_history or of update_rates_cache raises an
\* I/O error during an update_rates run, update_rates raises that error to
\* its caller: it returns no report and records no per-source failure.
C18_StorageErrorsPropagate ==
    [][(AwFail /\ wr.caller = "update_rates") =>
          /\ run'.pc = "raised"
          /\ run'.at = run.pc
          /\ run'.at \in {"save_to_history", "update_rates_cache"}
          /\ run'.exc.exc = "OSError"
          /\ "report" \notin DOMAIN run'
          /\ "sources_info" \notin DOMAIN run']_vars

\* C18 witness: the history write of the first client failed: the run raised
\* OSError and the second client was never called
C18_Witness ==
    /\ run.pc = "raised"
    /\ run.at = "save_to_history"
    /\ run.exc.exc = "OSError"
    /\ run.fetched = <<"coingecko">>
    /\ fs[HISTORY_FILE_PATH] = run.before[HISTORY_FILE_PATH]

\* the names clients are registered under
ClientNames == { Clients[i] : i \in DOMAIN Clients }

\* C19: update_rates called with a source name that is no registered client
\* fails with an error before any client's fetch_rates is called and without
\* modifying the cache or the history file.
C19_UnknownSourceFailsFirst ==
    [][\A source \in Sources, how \in {"tick", "second"} :
          (StartRun(source, how) /\ source # "" /\ Lower(source) \notin ClientNames) =>
              /\ run'.pc = "raised"
              /\ run'.at = "_get_clients_to_run"
              /\ run'.exc.exc = "ValueError"
              /\ run'.fetched = <<>>
              /\ fs' = fs]_vars

\* C19 witness: a call with an unknown source failed over the files an
\* earlier run left, which are as they were
C19_Witness ==
    /\ run.pc = "raised"
    /\ run.at = "_get_clients_to_run"
    /\ run.exc = Exc("ValueError", "Unknown source", "binance")
    /\ run.fetched = <<>>
    /\ run.before[RATES_FILE_PATH].st = "json"
    /\ run.before[HISTORY_FILE_PATH].st = "json"
    /\ fs = run.before

\* the error class the answer `resp` is to be reported as
Classified(resp, got) ==
    /\ resp.kind \in {"timeout", "connection_error"} =>
          (~got.ok /\ got.err.exc = "ApiRequestError")
    /\ (resp.kind = "http" /\ resp.status = 429) =>
          (~got.ok /\ got.err.exc = "RateLimitError")
    /\ (resp.kind = "http" /\ resp.status = 200 /\ resp.body.t = "text") =>
          (~got.ok /\ got.err.exc = "InvalidResponseError")
    /\ ~got.ok => got.err.exc \in ApiRequestErrors

\* C20: every fetch failure is classified into one error: a timeout or a
\* network failure gives ApiRequestError, HTTP 429 gives RateLimitError, an
\* unparsable payload (a non-JSON body) gives InvalidResponseError, and no
\* fetch_rates call ends in an exception of another type.
C20_FailuresClassified ==
    [][\A name \in ClientNames : \A resp \in Responses(name) :
          (Fetch(resp) /\ Head(run.todo) = name) =>
              Classified(resp, fetch_rates(name, resp))]_vars

---------------------------------------------------------------------------
(* Claims about the history queries, checked under SpecHistory *)

\* the record passes the equality filters of the last get_history call
Matches(r) ==
    /\ hist.from # "" => r.from_currency = hist.from
    /\ hist.to # "" => r.to_currency = hist.to

\* C21: get_history returns exactly the history records matching the given
\* from/to equality filters, ordered by timestamp newest first; when a limit
\* is given (any limit >= 0) it returns at most limit records, the first of
\* that order; it does not modify the history file.
C21_HistoryQuery ==
    hist.pc = "returned" =>
        LET matching == SelectSeq(Records(hist.before), Matches)
            out == hist.out
        IN
        /\ \A i \in DOMAIN out : \E j \in DOMAIN matching : matching[j] = out[i]
        /\ \A i, j \in DOMAIN out :
              i < j => ~KeyLess(TimestampKey(out[i]), TimestampKey(out[j]))
        /\ ~hist.limit.given => Len(out) = Len(matching)
        /\ hist.limit.given =>
              /\ Len(out) <= hist.limit.n
              /\ Len(out) = Len(matching) \/ Len(out) = hist.limit.n
        /\ fs[HISTORY_FILE_PATH] = hist.before

---------------------------------------------------------------------------
(* Further claims about the resolver, checked under SpecResolve *)

\* C22: RateService.get_rate never creates or modifies the cache file: for
\* every state of the cache file (missing, empty, valid, unreadable JSON) the
\* file after the call is the file before it.
C22_GetRateLeavesCacheFile ==
    Called => fs[RATES_FILE_PATH] = res.before

\* C26: get_rate applies its steps in strict priority order, the from == to
\* identity check first: a call with equal codes returns 1.0 before the
\* registry validation and before any cache read, whatever the code is.
C26_IdentityBeforeValidation ==
    (Called /\ FromAsked = ToAsked) =>
        /\ res.out.kind = "ok"
        /\ res.out.rate = R(1, 1)
        /\ ~res.out.read

---------------------------------------------------------------------------
(* Further claims about the update pipeline, checked under SpecUpdate *)

\* the run has ended: it returned, raised or was killed
RunEnded == run.pc \in {"done", "raised", "crashed"}

\* C23: the merge-and-persist step of an update_rates run is atomic: in no
\* state, failure or crash between steps included, does the history file hold
\* records of a run while the cache file does not reflect that run: a run
\* that ended having changed the history file has changed the cache file.
C23_HistoryAndCacheTogether ==
    (RunEnded /\ fs[HISTORY_FILE_PATH] # run.before[HISTORY_FILE_PATH]) =>
        fs[RATES_FILE_PATH] # run.before[RATES_FILE_PATH]

\* the loop is about to call fetch_rates of the next client, an earlier one
\* having been called
NextFetchDue == run.pc = "fetch" /\ run.todo # <<>> /\ run.fetched # <<>>

\* the fetch of the last client called, which came after another, failed with
\* an ApiRequestError
LaterFetchFailed ==
    /\ run.pc \in {"fetch", "update_rates_cache", "done"}
    /\ Len(run.fetched) >= 2
    /\ run.fetched[Len(run.fetched)] \in DOMAIN run.sources_info
    /\ ~run.sources_info[run.fetched[Len(run.fetched)]].success

CacheFileChanges == fs'[RATES_FILE_PATH] # fs[RATES_FILE_PATH]

\* C25: in each update_rates run the cache file is written at most once, only
\* after every selected client has been fetched, and exactly when the
\* aggregate map is non-empty; the write carries source = "ParserService";
\* when the aggregate is empty the previous cache file is left unchanged.
C25_CacheWrittenOncePerRun ==
    /\ [][CacheFileChanges =>
             /\ run.pc = "update_rates_cache"
             /\ run.todo = <<>>
             /\ run.fetched = run.selected
             /\ run.all_rates_data # <<>>
             /\ fs'[RATES_FILE_PATH] =
                    JsonFile(update_rates_cache(run.all_rates_data, "ParserService",
                                                run.timestamp))
             /\ fs'[RATES_FILE_PATH].v.meta.source = "ParserService"
             /\ run'.pc = "done"]_vars
    /\ [](ReportReturned =>
             IF run.all_rates_data # <<>>
             THEN /\ RatesNow # run.before[RATES_FILE_PATH]
                  /\ RatesNow = JsonFile(update_rates_cache(run.all_rates_data,
                                                            "ParserService",
                                                            run.timestamp))
             ELSE RatesNow = run.before[RATES_FILE_PATH])

\* C25 witness: a run over an existing cache returned with an empty aggregate
\* after both clients were fetched, and the cache is the one of the run
\* before, which wrote it.
C25_Witness ==
    /\ ReportReturned
    /\ run.all_rates_data = <<>>
    /\ Len(run.fetched) = 2
    /\ run.before[RATES_FILE_PATH].st = "json"
    /\ RatesNow = run.before[RATES_FILE_PATH]
    /\ RatesNow.v.meta.source = "ParserService"

---------------------------------------------------------------------------
(* Claim about the updater and the resolver together, checked under
   SpecSystem *)

\* the pair asked for by the last get_rate call
PairAsked == PairKey(FromAsked, ToAsked)

\* C27: after an update_rates run has written pair A_B with rate r to the
\* cache, a following get_rate(A, B) with A and B registered returns r: the
\* resolver reads the cache file the updater wrote.
C27_ResolverReadsUpdaterCache ==
    (/\ WroteCache
     /\ Called
     /\ FromAsked \in _CURRENCY_REGISTRY
     /\ ToAsked \in _CURRENCY_REGISTRY
     /\ PairAsked \in OdKeys(run.all_rates_data)) =>
        /\ res.out.kind = "ok"
        /\ res.out.rate = OdGet(run.all_rates_data, PairAsked).rate

---------------------------------------------------------------------------
(* Claim about providers that return the same pair, checked under
   SpecOverlap *)

\* the number of rates the clients of the run returned, over all of them
RECURSIVE RatesReturned(_)
RatesReturned(names) ==
    IF names = <<>> THEN 0
    ELSE (IF Head(names) \in DOMAIN run.sources_info
          THEN run.sources_info[Head(names)].rates ELSE 0)
         + RatesReturned(Tail(names))

\* the run wrote the cache and two of its providers returned the same pair
\* key: the aggregate map has fewer keys than the providers returned rates
SamePairFromTwo ==
    /\ WroteCache
    /\ RatesReturned(run.selected) > Len(run.all_rates_data)

\* C28: when two providers in the same update_rates run both return the same
\* pair key, the rate written to the cache for that pair equals the rate of
\* the history record of that pair for the run's timestamp.
C28_CacheRateIsHistoryRate ==
    SamePairFromTwo =>
        \A key \in DOMAIN RatesNow.v.pairs : \A i \in DOMAIN HistoryNow :
            (/\ PairKey(HistoryNow[i].from_currency, HistoryNow[i].to_currency) = key
             /\ HistoryNow[i].timestamp = Iso(run.timestamp)) =>
                HistoryNow[i].rate = RatesNow.v.pairs[key].rate

---------------------------------------------------------------------------
(* Claim about registration, checked under SpecAuth *)

\* the users the users file holds
PersistedUsers == LoadList(db.users)

\* the name of the last register call was a persisted user's before the call
UsernameTaken ==
    /\ db.last.pc # "none"
    /\ db.last.op = "register"
    /\ \E i \in DOMAIN LoadList(db.last.before.users) :
          LoadList(db.last.before.users)[i].username = db.last.username

\* C30: after any sequence of AuthService.register calls no two persisted
\* users have the same username and no two have the same user_id; a register
\* call with a username already taken fails and leaves the users and
\* portfolios files unchanged.
C30_UsersUnique ==
    /\ \A i, j \in DOMAIN PersistedUsers :
          i # j => /\ PersistedUsers[i].username # PersistedUsers[j].username
                   /\ PersistedUsers[i].user_id # PersistedUsers[j].user_id
    /\ UsernameTaken =>
          /\ db.last.pc = "raised"
          /\ db.users = db.last.before.users
          /\ db.portfolios = db.last.before.portfolios

---------------------------------------------------------------------------
(* Claim about concurrent cache writers, checked under SpecRace *)

\* C29: even when two update runs write the cache concurrently, a reader of
\* the cache file never observes a partially written or interleaved file: in
\* every state the file, if there is one, holds the complete content written
\* by one of the writers.
C29_ReaderSeesCompleteCache ==
    \/ fs[RATES_FILE_PATH].st = "missing"
    \/ /\ fs[RATES_FILE_PATH].st = "json"
       /\ fs[RATES_FILE_PATH].v.meta.source = "ParserService"

=============================================================================
